---- MODULE Spec2Model ----
(***************************************************************************)
(* A model of the normalisation and derivation engine of scraper.py.       *)
(*                                                                         *)
(* Python strings are sequences of one-character strings.  A value whose   *)
(* Python type varies is a record tagged by k: None is PyNone, a string s   *)
(* is PyStr(s), a raised exception is Raised(name), and a float is one of   *)
(*   [k |-> "nan"], [k |-> "inf"], [k |-> "ninf"]   the IEEE specials,      *)
(*   [k |-> "dec", m |-> m, e |-> e]                 the value m * 10^e,    *)
(*   [k |-> "quo", neg |-> b, n |-> n, d |-> d]      the value +-(n / d).   *)
(* Finite values are exact: binary rounding of the last bit is not          *)
(* modelled, and -0.0 is identified with 0.0 in the "dec" form (no modelled *)
(* function tells them apart).                                              *)
(*                                                                         *)
(* Every function of the program is an operator; a call is the pair of      *)
(* steps Call<f> (idle -> returned, with the arguments and the result) and  *)
(* Return (returned -> idle).  The fetchers and main run step by step:      *)
(* attempt and log are the loop counter and the trace of a fetcher,         *)
(* screened, stocks_raw and page the locals and the output of main.         *)
(***************************************************************************)
EXTENDS Integers, Sequences, FiniteSets, TLC

VARIABLES pc, op, args, ret, attempt, log, screened, stocks_raw, page

\* The state that only the fetchers and main change.
stepVars == <<attempt, log, screened, stocks_raw, page>>

vars == <<pc, op, args, ret, attempt, log, screened, stocks_raw, page>>

\* ---------------------------------------------------------------- bounds
\* Largest |mantissa| of a float handed to calc_yoy / get_cap_category.
MaxMant == 21
\* Longest enumerated token (beyond the listed extra tokens).
MaxLen == 3

\* ------------------------------------------------------- Python values
PyNone == [k |-> "none"]
PyStr(s) == [k |-> "str", s |-> s]
Raised(exc) == [k |-> "raise", exc |-> exc]
NaN == [k |-> "nan"]
PosInf == [k |-> "inf"]
NegInf == [k |-> "ninf"]
Dec(m, e) == [k |-> "dec", m |-> m, e |-> e]
Quo(neg, n, d) == [k |-> "quo", neg |-> neg, n |-> n, d |-> d]

RECURSIVE Pow10(_)
Pow10(n) ==
  IF n <= 0 THEN 1 ELSE 10 * Pow10(n - 1)

Min2(a, b) ==
  IF a <= b THEN a ELSE b

AbsInt(n) ==
  IF n < 0 THEN -n ELSE n

\* A finite value with its trailing decimal zeros moved into the exponent,
\* so that equal values are equal records.
RECURSIVE Norm(_, _)
Norm(m, e) ==
  IF m = 0 THEN Dec(0, 0)
  ELSE IF m % 10 = 0 THEN Norm(m \div 10, e + 1)
  ELSE Dec(m, e)

\* ---------------------------------------------------------- characters
LowerLetters ==
  <<"a","b","c","d","e","f","g","h","i","j","k","l","m",
    "n","o","p","q","r","s","t","u","v","w","x","y","z">>

UpperLetters ==
  <<"A","B","C","D","E","F","G","H","I","J","K","L","M",
    "N","O","P","Q","R","S","T","U","V","W","X","Y","Z">>

DigitChars ==
  <<"0","1","2","3","4","5","6","7","8","9">>

IsSpace(c) ==
  c \in {" ", "\t", "\n", "\r"}

IsDigit(c) ==
  \E i \in 1..10 : DigitChars[i] = c

DigitVal(c) ==
  (CHOOSE i \in 1..10 : DigitChars[i] = c) - 1

UpperChar(c) ==
  IF \E i \in 1..26 : LowerLetters[i] = c
  THEN UpperLetters[CHOOSE i \in 1..26 : LowerLetters[i] = c]
  ELSE c

LowerChar(c) ==
  IF \E i \in 1..26 : UpperLetters[i] = c
  THEN LowerLetters[CHOOSE i \in 1..26 : UpperLetters[i] = c]
  ELSE c

\* str.upper(), str.lower()
Upper(s) ==
  [i \in 1..Len(s) |-> UpperChar(s[i])]

Lower(s) ==
  [i \in 1..Len(s) |-> LowerChar(s[i])]

\* s[i:j] in 1-based inclusive indices; empty when i > j
Slice(s, i, j) ==
  IF i > j THEN <<>> ELSE SubSeq(s, i, j)

\* str.lstrip(), str.rstrip(), str.strip()
RECURSIVE LStrip(_)
LStrip(s) ==
  IF s # <<>> /\ IsSpace(Head(s)) THEN LStrip(Tail(s)) ELSE s

RECURSIVE RStrip(_)
RStrip(s) ==
  IF s # <<>> /\ IsSpace(s[Len(s)]) THEN RStrip(Slice(s, 1, Len(s) - 1)) ELSE s

Strip(s) ==
  RStrip(LStrip(s))

\* str.endswith(c) for a one-character suffix
EndsWith(s, c) ==
  Len(s) >= 1 /\ s[Len(s)] = c

\* str.replace(c, "") for a one-character c
RECURSIVE RemoveChar(_, _)
RemoveChar(s, c) ==
  IF s = <<>> THEN <<>>
  ELSE IF Head(s) = c THEN RemoveChar(Tail(s), c)
  ELSE <<Head(s)>> \o RemoveChar(Tail(s), c)

\* sub in s
Contains(s, sub) ==
  \E i \in 1..(Len(s) - Len(sub) + 1) : Slice(s, i, i + Len(sub) - 1) = sub

\* All strings over the characters of alphabet with at most n characters.
RECURSIVE StringsUpTo(_, _)
StringsUpTo(alphabet, n) ==
  IF n = 0 THEN {<<>>}
  ELSE LET shorter == StringsUpTo(alphabet, n - 1)
       IN shorter \cup {Append(s, c) : s \in shorter, c \in alphabet}

\* The decimal digits of a natural number, as a string.
RECURSIVE NatStr(_)
NatStr(n) ==
  IF n < 10 THEN <<DigitChars[n + 1]>>
  ELSE Append(NatStr(n \div 10), DigitChars[(n % 10) + 1])

\* -------------------------------------------------------------- float()
\* The first index >= i of s that holds no digit (Len(s) + 1 when none).
RECURSIVE SkipDigits(_, _)
SkipDigits(s, i) ==
  IF i <= Len(s) /\ IsDigit(s[i]) THEN SkipDigits(s, i + 1) ELSE i

\* The value of a string of digits (0 for the empty string).
RECURSIVE DigitsVal(_)
DigitsVal(s) ==
  IF s = <<>> THEN 0
  ELSE 10 * DigitsVal(Slice(s, 1, Len(s) - 1)) + DigitVal(s[Len(s)])

\* The one element of a singleton set.  Only({F(v) : v \in {e}}) is
\* "LET v == e IN F(v)" with e evaluated once, however often F uses v.
Only(S) ==
  CHOOSE x \in S : TRUE

\* float() on the unsigned decimal body whose integer digits end before
\* iEnd, whose mantissa ends before fEnd and whose exponent (if any) ends
\* before xEnd: digits [. digits] [(e|E) [+-] digits], with at least one
\* mantissa digit, at least one exponent digit, and nothing after.
FloatOfDecimal(neg, body, iEnd, fEnd, xEnd) ==
  LET n == Len(body)
      hasDot == iEnd <= n /\ body[iEnd] = "."
      hasExp == fEnd <= n /\ body[fEnd] \in {"e", "E"}
      xSigned == hasExp /\ fEnd + 1 <= n /\ body[fEnd + 1] \in {"+", "-"}
      xStart == IF xSigned THEN fEnd + 2 ELSE fEnd + 1
      nFrac == IF hasDot THEN fEnd - iEnd - 1 ELSE 0
      mant == DigitsVal(Slice(body, 1, iEnd - 1)
                          \o Slice(body, iEnd + 1, fEnd - 1))
      expVal == IF hasExp THEN DigitsVal(Slice(body, xStart, xEnd - 1)) ELSE 0
  IN IF /\ (iEnd - 1) + nFrac >= 1
        /\ hasExp => xEnd > xStart
        /\ xEnd = n + 1
     THEN Norm(IF neg THEN -mant ELSE mant,
               (IF xSigned /\ body[fEnd + 1] = "-" THEN -expVal ELSE expVal)
                 - nFrac)
     ELSE PyNone

\* The index after the mantissa that starts body: past the integer digits
\* ending before iEnd and, after a ".", past the fraction digits.
MantissaEnd(body, iEnd) ==
  IF iEnd <= Len(body) /\ body[iEnd] = "."
  THEN SkipDigits(body, iEnd + 1)
  ELSE iEnd

\* The index after the exponent that follows the mantissa ending before
\* fEnd (fEnd itself when no "e" follows).
ExponentEnd(body, fEnd) ==
  IF fEnd <= Len(body) /\ body[fEnd] \in {"e", "E"}
  THEN IF fEnd + 1 <= Len(body) /\ body[fEnd + 1] \in {"+", "-"}
       THEN SkipDigits(body, fEnd + 2)
       ELSE SkipDigits(body, fEnd + 1)
  ELSE fEnd

\* float() on the text after the optional sign.
FloatOfBody(neg, body) ==
  IF Lower(body) = <<"n","a","n">> THEN NaN
  ELSE IF Lower(body) \in {<<"i","n","f">>, <<"i","n","f","i","n","i","t","y">>}
    THEN (IF neg THEN NegInf ELSE PosInf)
  ELSE Only({ Only({ Only({ FloatOfDecimal(neg, body, iEnd, fEnd, xEnd)
                            : xEnd \in {ExponentEnd(body, fEnd)} })
                     : fEnd \in {MantissaEnd(body, iEnd)} })
              : iEnd \in {SkipDigits(body, 1)} })

\* float() on a string without surrounding whitespace.
FloatOfStripped(s) ==
  IF Len(s) >= 1 /\ s[1] \in {"+", "-"}
  THEN Only({ FloatOfBody(s[1] = "-", body) : body \in {Slice(s, 2, Len(s))} })
  ELSE FloatOfBody(FALSE, s)

\* float(str): PyNone stands for the ValueError of a string that is no
\* float literal.  Accepted, after strip():
\*   [+-] ( nan | inf | infinity | digits [. digits] [(e|E) [+-] digits] )
\* with the letters in any case.
ParseFloat(str) ==
  Only({ FloatOfStripped(s) : s \in {Strip(str)} })

\* ----------------------------------------------------- float arithmetic
IsFinite(x) ==
  x.k \in {"dec", "quo"}

\* x == 0 for a float
FloatIsZero(x) ==
  \/ x.k = "dec" /\ x.m = 0
  \/ x.k = "quo" /\ x.n = 0

\* The integer mantissa of the finite "dec" value x at exponent e <= x.e.
Scaled(x, e) ==
  x.m * Pow10(x.e - e)

\* a - b
FloatSub(a, b) ==
  IF a.k = "nan" \/ b.k = "nan" THEN NaN
  ELSE IF a.k = "inf" THEN (IF b.k = "inf" THEN NaN ELSE PosInf)
  ELSE IF a.k = "ninf" THEN (IF b.k = "ninf" THEN NaN ELSE NegInf)
  ELSE IF b.k = "inf" THEN NegInf
  ELSE IF b.k = "ninf" THEN PosInf
  ELSE LET e == Min2(a.e, b.e)
       IN Norm(Scaled(a, e) - Scaled(b, e), e)

\* abs(a)
FloatAbs(a) ==
  IF a.k = "nan" THEN NaN
  ELSE IF a.k \in {"inf", "ninf"} THEN PosInf
  ELSE Dec(AbsInt(a.m), a.e)

\* a / b for b = abs(..), b # 0 (calc_yoy returns before dividing by zero)
FloatDiv(a, b) ==
  IF a.k = "nan" \/ b.k = "nan" THEN NaN
  ELSE IF a.k \in {"inf", "ninf"}
    THEN (IF b.k = "inf" THEN NaN ELSE a)
  ELSE IF b.k = "inf" THEN Quo(a.m < 0, 0, 1)
  ELSE LET e == Min2(a.e, b.e)
       IN Quo(a.m < 0, AbsInt(Scaled(a, e)), Scaled(b, e))

\* a * 100
FloatMul100(a) ==
  IF a.k = "quo" THEN Quo(a.neg, a.n * 100, a.d) ELSE a

\* a >= b and a < b as Python compares floats ("dec" or special operands):
\* every comparison with NaN is False.
FloatLess(a, b) ==
  IF a.k = "nan" \/ b.k = "nan" THEN FALSE
  ELSE IF a.k = "inf" \/ b.k = "ninf" THEN FALSE
  ELSE IF a.k = "ninf" \/ b.k = "inf" THEN TRUE
  ELSE LET e == Min2(a.e, b.e)
       IN Scaled(a, e) < Scaled(b, e)

FloatGeq(a, b) ==
  IF a.k = "nan" \/ b.k = "nan" THEN FALSE
  ELSE ~FloatLess(a, b)

\* Rounding of a / b (a >= 0, b > 0) to the nearest integer, ties to even.
RoundHalfEven(a, b) ==
  LET q == a \div b
      r == a % b
  IN IF 2 * r > b THEN q + 1
     ELSE IF 2 * r = b THEN q + (q % 2)
     ELSE q

PLACEHOLDER == <<"-">>

\* fmt_pct(value, decimals=1): f"{value:+.{decimals}f}%"
fmt_pct(value) ==
  IF value = PyNone THEN PLACEHOLDER
  ELSE IF value.k = "nan" THEN <<"+","n","a","n","%">>
  ELSE IF value.k = "inf" THEN <<"+","i","n","f","%">>
  ELSE IF value.k = "ninf" THEN <<"-","i","n","f","%">>
  ELSE LET tenths == RoundHalfEven(value.n * 10, value.d)
       IN (IF value.neg THEN <<"-">> ELSE <<"+">>)
          \o NatStr(tenths \div 10) \o <<".">> \o NatStr(tenths % 10) \o <<"%">>

\* calc_yoy with the "prior_val == 0" test forgotten: the division raises.
calc_yoy_no_zero_guard(current_val, prior_val) ==
  IF current_val = PyNone \/ prior_val = PyNone THEN PyStr(PLACEHOLDER)
  ELSE IF FloatIsZero(prior_val) THEN Raised("ZeroDivisionError")
  ELSE PyStr(fmt_pct(FloatMul100(FloatDiv(FloatSub(current_val, prior_val),
                                    FloatAbs(prior_val)))))

\* calc_yoy(current_val, prior_val)
calc_yoy(current_val, prior_val) ==
  IF current_val = PyNone \/ prior_val = PyNone \/ FloatIsZero(prior_val)
  THEN PyStr(PLACEHOLDER)
  ELSE PyStr(fmt_pct(FloatMul100(FloatDiv(FloatSub(current_val, prior_val),
                                    FloatAbs(prior_val)))))

\* ------------------------------------------------------------ the calls
Init ==
  /\ pc = "idle"
  /\ op = "none"
  /\ args = <<>>
  /\ ret = PyNone
  /\ attempt = 0
  /\ log = <<>>
  /\ screened = <<>>
  /\ stocks_raw = <<>>
  /\ page = PyNone

Return ==
  /\ pc = "returned"
  /\ pc' = "idle"
  /\ op' = "none"
  /\ args' = <<>>
  /\ ret' = PyNone
  /\ attempt' = 0
  /\ log' = <<>>
  /\ screened' = <<>>
  /\ stocks_raw' = <<>>
  /\ page' = PyNone

\* The floats a caller can hand to calc_yoy: None, the specials and the
\* finite values m * 10^e.
YoyOperands ==
  {PyNone, NaN, PosInf, NegInf}
    \cup {Dec(m, e) : m \in (-MaxMant)..MaxMant, e \in {-1, 0, 1}}

CallCalcYoy ==
  /\ pc = "idle"
  /\ \E c \in YoyOperands, p \in YoyOperands :
       /\ args' = <<c, p>>
       /\ ret' = calc_yoy(c, p)
  /\ op' = "calc_yoy"
  /\ pc' = "returned"
  /\ UNCHANGED stepVars

NextYoy ==
  CallCalcYoy \/ Return

SpecYoy ==
  Init /\ [][NextYoy]_vars

\* ------------------------------------------------- magnitude classifier
\* floor(m / 10^n), by n floor divisions by 10 (no power is ever formed, so
\* the machine integers are never left).
RECURSIVE FloorDivPow10(_, _)
FloorDivPow10(m, n) ==
  IF n <= 0 THEN m ELSE FloorDivPow10(m \div 10, n - 1)

\* x >= k for a float x and a natural number k:
\*   m * 10^e >= k  iff  m >= ceil(k / 10^e)      when e >= 0,
\*   m / 10^n >= k  iff  floor(m / 10^n) >= k     when e = -n < 0.
FloatGeqNat(x, k) ==
  IF x.k = "nan" \/ x.k = "ninf" THEN FALSE
  ELSE IF x.k = "inf" THEN TRUE
  ELSE IF x.e >= 0 THEN x.m >= -FloorDivPow10(-k, x.e)
  ELSE FloorDivPow10(x.m, -x.e) >= k

\* x * 10^n (n may be negative): exact on finite values
FloatMulPow10(x, n) ==
  IF x.k = "dec" THEN Norm(x.m, x.e + n) ELSE x

\* get_cap_category with the tiers tested from the smallest up, so that
\* every value of at least 2 stops at "Mid Cap".
get_cap_category_smallest_first(cap_billions) ==
  IF cap_billions = PyNone THEN "Unknown"
  ELSE IF ~FloatGeqNat(cap_billions, 2) THEN "Under $2B"
  ELSE IF FloatGeqNat(cap_billions, 2) THEN "Mid Cap"
  ELSE IF FloatGeqNat(cap_billions, 20) THEN "Large Cap"
  ELSE "Mega Cap"

\* get_cap_category(cap_billions)
get_cap_category(cap_billions) ==
  IF cap_billions = PyNone THEN "Unknown"
  ELSE IF FloatGeqNat(cap_billions, 200) THEN "Mega Cap"
  ELSE IF FloatGeqNat(cap_billions, 20) THEN "Large Cap"
  ELSE IF FloatGeqNat(cap_billions, 2) THEN "Mid Cap"
  ELSE "Under $2B"

\* The tokens the placeholder test of parse_market_cap_value lists.
CAP_PLACEHOLDERS ==
  {<<"-">>, <<"n","a","n">>, <<"N","o","n","e">>, <<>>}

\* parse_market_cap_value with the "M" branch multiplying by 1000 instead
\* of dividing.
parse_market_cap_value_m_times(cap_str) ==
  IF cap_str = PyNone \/ cap_str.s = <<>>
       \/ Strip(cap_str.s) \in CAP_PLACEHOLDERS
  THEN PyNone
  ELSE LET s == Upper(Strip(cap_str.s))
           prefix == ParseFloat(Slice(s, 1, Len(s) - 1))
           whole == ParseFloat(s)
       IN IF EndsWith(s, "T")
            THEN (IF prefix = PyNone THEN PyNone ELSE FloatMulPow10(prefix, 3))
          ELSE IF EndsWith(s, "B") THEN prefix
          ELSE IF EndsWith(s, "M")
            THEN (IF prefix = PyNone THEN PyNone ELSE FloatMulPow10(prefix, 3))
          ELSE (IF whole = PyNone THEN PyNone ELSE FloatMulPow10(whole, -9))

\* parse_market_cap_value(cap_str): cap_str is None or a string.  A float()
\* that fails raises the ValueError the function catches and answers None.
parse_market_cap_value(cap_str) ==
  IF cap_str = PyNone \/ cap_str.s = <<>>
       \/ Strip(cap_str.s) \in CAP_PLACEHOLDERS
  THEN PyNone
  ELSE LET s == Upper(Strip(cap_str.s))
           prefix == ParseFloat(Slice(s, 1, Len(s) - 1))
           whole == ParseFloat(s)
       IN IF EndsWith(s, "T")
            THEN (IF prefix = PyNone THEN PyNone ELSE FloatMulPow10(prefix, 3))
          ELSE IF EndsWith(s, "B") THEN prefix
          ELSE IF EndsWith(s, "M")
            THEN (IF prefix = PyNone THEN PyNone ELSE FloatMulPow10(prefix, -3))
          ELSE (IF whole = PyNone THEN PyNone ELSE FloatMulPow10(whole, -9))

\* The floats a caller can hand to get_cap_category.
CapOperands ==
  {PyNone, NaN, PosInf, NegInf}
    \cup {Dec(m, e) : m \in (-MaxMant)..MaxMant, e \in {-1, 0, 1}}

CallGetCapCategory ==
  /\ pc = "idle"
  /\ \E cap \in CapOperands :
       /\ args' = <<cap>>
       /\ ret' = get_cap_category(cap)
  /\ op' = "get_cap_category"
  /\ pc' = "returned"
  /\ UNCHANGED stepVars

\* Market-cap tokens: every string of at most MaxLen characters over
\* CapAlphabet, and the listed longer tokens.
CapAlphabet ==
  {"1", "5", ".", "-", "T", "b", "M", " "}

CapExtraTokens ==
  { <<"N","o","n","e">>, <<"n","o","n","e">>, <<"N","O","N","E">>,
    <<"N","/","A">>, <<"n","/","a">>, <<" ","N","/","A"," ">>,
    <<"n","a","n">>, <<" ","n","a","n"," ">>, <<"N","a","N">>,
    <<"n","a","n","B">>, <<"i","n","f">>, <<"-","i","n","f","T">>,
    <<"1",".","2","3","T">>, <<"8","5","0","M">>, <<"5",".","2","B">>,
    <<"3","9","0","7",".","8","3","B">>, <<" ","5",".","2","b"," ">>,
    <<"2","5","0","0","0","0">>, <<"1","e","9">>, <<"2","E","1","0">>,
    <<"1",",","2","B">>, <<"$","5","B">>, <<"B","5">>, <<"5","K">> }

CapTokens ==
  StringsUpTo(CapAlphabet, MaxLen) \cup CapExtraTokens

CallParseMarketCapValue ==
  /\ pc = "idle"
  /\ \E cap_str \in {PyNone} \cup {PyStr(s) : s \in CapTokens} :
       /\ args' = <<cap_str>>
       /\ ret' = parse_market_cap_value(cap_str)
  /\ op' = "parse_market_cap_value"
  /\ pc' = "returned"
  /\ UNCHANGED stepVars

NextCap ==
  CallGetCapCategory \/ CallParseMarketCapValue \/ Return

SpecCap ==
  Init /\ [][NextCap]_vars


\* ---------------------------------------------------------- row resolver
PyList(v) == [k |-> "list", v |-> v]

\* str(v) for a JSON cell: a string, or null (None)
StrOf(v) ==
  IF v = PyNone THEN <<"N","o","n","e">> ELSE v.s

\* A statement table as fetch_ajax returns it: None, or a dict that may
\* lack the "headers" and the "data" key.  Headers and the cells of a row
\* are JSON strings or nulls.
Table(hasHeaders, headers, hasData, rows) ==
  [k |-> "dict", hasHeaders |-> hasHeaders, headers |-> headers,
   hasData |-> hasData, data |-> rows]

EmptyDict ==
  Table(FALSE, <<>>, FALSE, <<>>)

\* not data
IsFalsy(data) ==
  data = PyNone \/ (~data.hasHeaders /\ ~data.hasData)

\* data.get("data", [])
DataRows(data) ==
  IF data.hasData THEN data.data ELSE <<>>

\* data.get("headers", [])
DataHeaders(data) ==
  IF data.hasHeaders THEN data.headers ELSE <<>>

\* A dict with insertion order: a sequence of entries with distinct keys.
\* result[label] = vals replaces the value of a key in place and appends a
\* new key.
DictSet(result, label, vals) ==
  IF \E i \in 1..Len(result) : result[i].key = label
  THEN [i \in 1..Len(result) |->
          IF result[i].key = label
          THEN [key |-> label, vals |-> vals]
          ELSE result[i]]
  ELSE Append(result, [key |-> label, vals |-> vals])

\* dict.setdefault semantics: an existing key keeps its first value.
DictSetDefault(result, label, vals) ==
  IF \E i \in 1..Len(result) : result[i].key = label
  THEN result
  ELSE Append(result, [key |-> label, vals |-> vals])

\* [str(v).replace(",", "").strip() for v in row[1:]]
CleanVals(row) ==
  [i \in 1..(Len(row) - 1) |-> Strip(RemoveChar(StrOf(row[i + 1]), ","))]

\* The loop of ajax_row_map from row i on, result being the dict so far.
RECURSIVE RowMapFrom(_, _, _)
RowMapFrom(rows, i, result) ==
  IF i > Len(rows) THEN result
  ELSE IF Len(rows[i]) >= 2
    THEN Only({ RowMapFrom(rows, i + 1, next)
                : next \in {DictSet(result, Strip(StrOf(rows[i][1])),
                                    CleanVals(rows[i]))} })
  ELSE RowMapFrom(rows, i + 1, result)

\* The loop of ajax_row_map keeping the first row of a label, not the last.
RECURSIVE RowMapFirstWinsFrom(_, _, _)
RowMapFirstWinsFrom(rows, i, result) ==
  IF i > Len(rows) THEN result
  ELSE IF Len(rows[i]) >= 2
    THEN Only({ RowMapFirstWinsFrom(rows, i + 1, next)
                : next \in {DictSetDefault(result, Strip(StrOf(rows[i][1])),
                                           CleanVals(rows[i]))} })
  ELSE RowMapFirstWinsFrom(rows, i + 1, result)

ajax_row_map_first_wins(data) ==
  IF IsFalsy(data) THEN <<>>
  ELSE RowMapFirstWinsFrom(DataRows(data), 1, <<>>)

\* ajax_row_map(data)
ajax_row_map(data) ==
  IF IsFalsy(data) THEN <<>>
  ELSE RowMapFrom(DataRows(data), 1, <<>>)

\* The least element of a non-empty set of integers.
MinOf(S) ==
  CHOOSE i \in S : \A j \in S : i <= j

\* The inner loop of find_row: the index of the first key of row_map whose
\* lowercase form contains cl (0 when there is none).
FirstKeyContaining(row_map, cl) ==
  LET hits == {i \in 1..Len(row_map) : Contains(Lower(row_map[i].key), cl)}
  IN IF hits = {} THEN 0 ELSE MinOf(hits)

\* The outer loop of find_row from candidate j on.
RECURSIVE FindRowFrom(_, _, _)
FindRowFrom(row_map, candidates, j) ==
  IF j > Len(candidates) THEN PyNone
  ELSE Only({ IF i > 0 THEN PyList(row_map[i].vals)
              ELSE FindRowFrom(row_map, candidates, j + 1)
              : i \in {FirstKeyContaining(row_map, Lower(candidates[j]))} })

\* find_row with the loops exchanged: the first key that contains any of
\* the candidates wins.
find_row_keys_first(row_map, candidates) ==
  LET hits == {i \in 1..Len(row_map) :
                 \E j \in 1..Len(candidates) :
                   Contains(Lower(row_map[i].key), Lower(candidates[j]))}
  IN IF hits = {} THEN PyNone ELSE PyList(row_map[MinOf(hits)].vals)

\* find_row(row_map, *candidates)
find_row(row_map, candidates) ==
  FindRowFrom(row_map, candidates, 1)

\* ---- inputs of the row resolver
\* Most rows of a table and most candidates of one find_row call.
MaxRows == 3
MaxCands == 2

\* The sequences over S of at most n elements.
RECURSIVE SeqsUpTo(_, _)
SeqsUpTo(S, n) ==
  IF n = 0 THEN {<<>>}
  ELSE LET shorter == SeqsUpTo(S, n - 1)
       IN shorter \cup {Append(s, x) : s \in shorter, x \in S}

IsInjective(s) ==
  \A i, j \in 1..Len(s) : s[i] = s[j] => i = j

\* Raw rows: a row without cells, a lone label, labels that differ only in
\* surrounding blanks, a null label, nulls, commas and blanks in the cells.
RawRows ==
  { <<>>,
    <<PyStr(<<"E","P","S">>)>>,
    <<PyStr(<<"E","P","S">>), PyStr(<<"1",",","2","0","0">>)>>,
    <<PyStr(<<" ","E","P","S"," ">>), PyStr(<<" ","1",".","5"," ">>), PyNone>>,
    <<PyStr(<<"E","P","S">>), PyStr(<<"7">>)>>,
    <<PyStr(<<"R","e","v">>), PyStr(<<"-">>), PyStr(<<",","3",","," ">>)>>,
    <<PyNone, PyStr(<<"3">>)>>,
    <<PyStr(<<"N","o","n","e">>), PyStr(<<>>)>> }

RawTables ==
  {PyNone, EmptyDict, Table(TRUE, <<>>, FALSE, <<>>)}
    \cup {Table(FALSE, <<>>, TRUE, rows) : rows \in SeqsUpTo(RawRows, MaxRows)}

CallAjaxRowMap ==
  /\ pc = "idle"
  /\ \E data \in RawTables :
       /\ args' = <<data>>
       /\ ret' = ajax_row_map(data)
  /\ op' = "ajax_row_map"
  /\ pc' = "returned"
  /\ UNCHANGED stepVars

\* Row labels and candidate labels of find_row.
RowLabels ==
  { <<"T","o","t","a","l"," ","R","e","v","e","n","u","e">>,
    <<"r","e","v","e","n","u","e">>,
    <<"S","A","L","E","S">>,
    <<"E","P","S">>,
    <<"N","e","t"," ","S","a","l","e","s">>,
    <<>> }

CandidateLabels ==
  { <<"R","e","v","e","n","u","e">>,
    <<"S","a","l","e","s">>,
    <<"T","o","t","a","l">>,
    <<"e","p","s"," ">>,
    <<>> }

\* The row map with the given keys in insertion order; the values of the
\* i-th row are the one cell "i".
RowMapOf(keys) ==
  [i \in 1..Len(keys) |-> [key |-> keys[i], vals |-> <<NatStr(i)>>]]

RowMaps ==
  {RowMapOf(keys) : keys \in {s \in SeqsUpTo(RowLabels, MaxRows) : IsInjective(s)}}

CallFindRow ==
  /\ pc = "idle"
  /\ \E row_map \in RowMaps, candidates \in SeqsUpTo(CandidateLabels, MaxCands) :
       /\ args' = <<row_map, candidates>>
       /\ ret' = find_row(row_map, candidates)
  /\ op' = "find_row"
  /\ pc' = "returned"
  /\ UNCHANGED stepVars

NextRows ==
  CallAjaxRowMap \/ CallFindRow \/ Return

SpecRows ==
  Init /\ [][NextRows]_vars


\* -------------------------------------------------------- record builder
\* A snapshot dict is a function from some of the field names to values
\* (PyStr or PyNone).  d.get(k, "")
DictGet(d, key) ==
  IF key \in DOMAIN d THEN d[key] ELSE PyStr(<<>>)

\* The tokens the placeholder test of safe_get lists.
SAFE_GET_PLACEHOLDERS ==
  {<<"-">>, <<"n","a","n">>, <<"N","o","n","e">>, <<>>}

\* "v and ..." for a string or None
IsTruthy(v) ==
  v # PyNone /\ v.s # <<>>

\* safe_get without the placeholder test: the first value that is present.
RECURSIVE safe_get_no_placeholder_test(_, _)
safe_get_no_placeholder_test(d, keys) ==
  IF keys = <<>> THEN <<"-">>
  ELSE IF Head(keys) \in DOMAIN d
    THEN Strip(StrOf(d[Head(keys)]))
  ELSE safe_get_no_placeholder_test(d, Tail(keys))

\* safe_get putting "+" before a value that carries no sign.
RECURSIVE safe_get_plus_sign(_, _)
safe_get_plus_sign(d, keys) ==
  IF keys = <<>> THEN <<"-">>
  ELSE Only({ IF IsTruthy(v) /\ Strip(StrOf(v)) \notin SAFE_GET_PLACEHOLDERS
              THEN Only({ IF t[1] \in {"+", "-"} THEN t ELSE <<"+">> \o t
                          : t \in {Strip(StrOf(v))} })
              ELSE safe_get_plus_sign(d, Tail(keys))
              : v \in {DictGet(d, Head(keys))} })

\* safe_get(d, *keys)
RECURSIVE safe_get(_, _)
safe_get(d, keys) ==
  IF keys = <<>> THEN <<"-">>
  ELSE Only({ IF IsTruthy(v) /\ Strip(StrOf(v)) \notin SAFE_GET_PLACEHOLDERS
              THEN Strip(StrOf(v))
              ELSE safe_get(d, Tail(keys))
              : v \in {DictGet(d, Head(keys))} })

\* re.match of -?\d+\.?\d*% at index i of s: the index after the match, or
\* 0 when there is none.  The digits after the optional "-" end before j;
\* a "." at j is taken when the digits after it are followed by "%", and
\* giving it back cannot help, since the "." itself is then not a "%".
PctMatchEnd(s, i) ==
  LET start == IF i <= Len(s) /\ s[i] = "-" THEN i + 1 ELSE i
  IN Only({ IF j = start THEN 0
            ELSE IF j <= Len(s) /\ s[j] = "%" THEN j + 1
            ELSE IF j <= Len(s) /\ s[j] = "."
              THEN Only({ IF f <= Len(s) /\ s[f] = "%" THEN f + 1 ELSE 0
                          : f \in {SkipDigits(s, j + 1)} })
            ELSE 0
            : j \in {SkipDigits(s, start)} })

\* re.findall(r"-?\d+\.?\d*%", s) from index i on: the matches left to
\* right, the search resuming after each match.
RECURSIVE PctFindAll(_, _)
PctFindAll(s, i) ==
  IF i > Len(s) THEN <<>>
  ELSE Only({ IF e > 0
              THEN <<Slice(s, i, e - 1)>> \o PctFindAll(s, e)
              ELSE PctFindAll(s, i + 1)
              : e \in {PctMatchEnd(s, i)} })

\* The surprise split of build_stock_record.
SurprTokens(surpr_raw) ==
  IF surpr_raw # <<>> /\ surpr_raw \notin {<<"-">>, <<>>}
  THEN PctFindAll(surpr_raw, 1)
  ELSE <<>>

\* The surprise split handing both fields the first token.
build_stock_record_first_token_twice(raw) ==
  LET fund == raw.fundament
  IN Only({ [ ticker |-> raw.ticker,
              market_cap |-> cap_str,
              cap_category |-> get_cap_category(parse_market_cap_value(PyStr(cap_str))),
              next_earnings |-> safe_get(fund, <<"Earnings">>),
              eps_yy_ttm |-> safe_get(fund, <<"EPS Y/Y TTM">>),
              sales_yy_ttm |-> safe_get(fund, <<"Sales Y/Y TTM">>),
              eps_q_rep |-> safe_get(fund, <<"EPS Q/Q">>),
              sales_q_rep |-> safe_get(fund, <<"Sales Q/Q">>),
              eps_surpr |-> IF Len(tokens) > 0 THEN tokens[1] ELSE <<"-">>,
              sales_surpr |-> IF Len(tokens) > 1 THEN tokens[1] ELSE <<"-">>,
              avg_target_price |-> safe_get(fund, <<"Target Price">>) ]
            : cap_str \in {safe_get(fund, <<"Market Cap">>)},
              tokens \in {SurprTokens(safe_get(fund, <<"EPS/Sales Surpr.">>))} })

\* build_stock_record(raw)
build_stock_record(raw) ==
  LET fund == raw.fundament
  IN Only({ [ ticker |-> raw.ticker,
              market_cap |-> cap_str,
              cap_category |-> get_cap_category(parse_market_cap_value(PyStr(cap_str))),
              next_earnings |-> safe_get(fund, <<"Earnings">>),
              eps_yy_ttm |-> safe_get(fund, <<"EPS Y/Y TTM">>),
              sales_yy_ttm |-> safe_get(fund, <<"Sales Y/Y TTM">>),
              eps_q_rep |-> safe_get(fund, <<"EPS Q/Q">>),
              sales_q_rep |-> safe_get(fund, <<"Sales Q/Q">>),
              eps_surpr |-> IF Len(tokens) > 0 THEN tokens[1] ELSE <<"-">>,
              sales_surpr |-> IF Len(tokens) > 1 THEN tokens[2] ELSE <<"-">>,
              avg_target_price |-> safe_get(fund, <<"Target Price">>) ]
            : cap_str \in {safe_get(fund, <<"Market Cap">>)},
              tokens \in {SurprTokens(safe_get(fund, <<"EPS/Sales Surpr.">>))} })

\* ---- inputs of the record builder
SnapshotKeys ==
  {"Market Cap", "Earnings", "EPS Y/Y TTM", "Sales Y/Y TTM", "EPS Q/Q",
   "Sales Q/Q", "EPS/Sales Surpr.", "Target Price"}

\* The snapshot of the docstring of build_stock_record.
SampleSnapshot ==
  [key \in SnapshotKeys |->
     CASE key = "Market Cap" -> PyStr(<<"3","9","0","7",".","8","3","B">>)
       [] key = "Earnings" -> PyStr(<<"J","a","n"," ","2","9"," ","A","M","C">>)
       [] key = "EPS Y/Y TTM" -> PyStr(<<"2","5",".","5","8","%">>)
       [] key = "Sales Y/Y TTM" -> PyStr(<<"1","0",".","0","7","%">>)
       [] key = "EPS Q/Q" -> PyStr(<<"1","8",".","5","4","%">>)
       [] key = "Sales Q/Q" -> PyStr(<<"1","5",".","6","5","%">>)
       [] key = "EPS/Sales Surpr." -> PyStr(<<"6",".","2","4","%","3",".","8","8","%">>)
       [] OTHER -> PyStr(<<"2","9","7",".","9","2">>)]

\* The snapshot of a failed fetch.
EmptySnapshot ==
  [key \in {} |-> PyNone]

\* A field removed from a snapshot, or set to a value.
Missing == [k |-> "missing"]

WithField(d, key, v) ==
  IF v = Missing
  THEN [f \in DOMAIN d \ {key} |-> d[f]]
  ELSE [f \in DOMAIN d \cup {key} |-> IF f = key THEN v ELSE d[f]]

\* Field values: the absent forms, values with blanks around them, growth,
\* magnitude and surprise strings.
FieldValues ==
  { Missing, PyNone, PyStr(<<>>), PyStr(<<" ">>), PyStr(<<" ","\t"," ">>),
    PyStr(<<"-">>), PyStr(<<" ","-"," ">>), PyStr(<<"n","a","n">>),
    PyStr(<<" ","n","a","n">>), PyStr(<<"N","o","n","e">>), PyStr(<<"N","a","N">>),
    PyStr(<<"N","/","A">>), PyStr(<<"-","2",".","5","%">>),
    PyStr(<<" ","1",".","5","B"," ">>), PyStr(<<"8","5","0","M">>),
    PyStr(<<"2","1","T">>), PyStr(<<"2","5","B">>),
    PyStr(<<"-","1",".","5","%","0",".","3","%","7","%">>) }

\* Characters of the enumerated surprise strings, which are at most
\* SurprMaxLen long (three tokens need six characters).
SurprAlphabet ==
  {"1", ".", "%", "-"}

SurprMaxLen == MaxLen + 3

Tickers ==
  {<<"A","A","P","L">>, <<"M","S","F","T">>}

\* build_stock_record on a ticker with the empty or the sample snapshot, at
\* most two fields of it changed.
CallBuildStockRecord ==
  /\ pc = "idle"
  /\ \E ticker \in Tickers, base \in {EmptySnapshot, SampleSnapshot},
        k1 \in SnapshotKeys, v1 \in FieldValues,
        k2 \in {"Market Cap", "EPS/Sales Surpr."}, v2 \in FieldValues :
       LET raw == [ticker |-> ticker,
                   fundament |-> WithField(WithField(base, k1, v1), k2, v2)]
       IN /\ args' = <<raw>>
          /\ ret' = build_stock_record(raw)
  /\ op' = "build_stock_record"
  /\ pc' = "returned"
  /\ UNCHANGED stepVars

\* build_stock_record on the sample snapshot with every surprise string of
\* at most SurprMaxLen characters of SurprAlphabet.
CallBuildStockRecordSurprise ==
  /\ pc = "idle"
  /\ \E n \in 0..SurprMaxLen :
       \E s \in [1..n -> SurprAlphabet] :
         LET raw == [ticker |-> <<"A","A","P","L">>,
                     fundament |-> WithField(SampleSnapshot,
                                             "EPS/Sales Surpr.", PyStr(s))]
         IN /\ args' = <<raw>>
            /\ ret' = build_stock_record(raw)
  /\ op' = "build_stock_record"
  /\ pc' = "returned"
  /\ UNCHANGED stepVars

NextRecord ==
  CallBuildStockRecord \/ CallBuildStockRecordSurprise \/ Return

SpecRecord ==
  Init /\ [][NextRecord]_vars


\* ----------------------------------------------------- annual income parser
\* The values first_numeric passes over without trying float()
FIRST_NUMERIC_SKIP ==
  {<<"-">>, <<"N","/","A">>, <<>>}

\* The loop of first_numeric from value i on; vals holds strings, so
\* str(v) is v.  A float() that fails raises the ValueError the loop passes.
RECURSIVE FirstNumericFrom(_, _)
FirstNumericFrom(vals, i) ==
  IF i > Len(vals) THEN PyNone
  ELSE Only({ IF v /= <<>> /\ v \notin FIRST_NUMERIC_SKIP
              THEN Only({ IF f /= PyNone THEN f
                          ELSE FirstNumericFrom(vals, i + 1)
                          : f \in {ParseFloat(v)} })
              ELSE FirstNumericFrom(vals, i + 1)
              : v \in {Strip(vals[i])} })

\* first_numeric(vals): vals is None or a list of strings
first_numeric(vals) ==
  IF vals = PyNone \/ vals.v = <<>> THEN PyNone
  ELSE FirstNumericFrom(vals.v, 1)

\* The loop of last_numeric over reversed(vals), from value i down.
RECURSIVE LastNumericFrom(_, _)
LastNumericFrom(vals, i) ==
  IF i < 1 THEN PyNone
  ELSE Only({ IF v /= <<>> /\ v \notin FIRST_NUMERIC_SKIP
              THEN Only({ IF f /= PyNone THEN f
                          ELSE LastNumericFrom(vals, i - 1)
                          : f \in {ParseFloat(v)} })
              ELSE LastNumericFrom(vals, i - 1)
              : v \in {Strip(vals[i])} })

\* last_numeric scanning from the left, as first_numeric does.
last_numeric_scans_left(vals) ==
  first_numeric(vals)

\* last_numeric(vals): vals is None or a list of strings
last_numeric(vals) ==
  IF vals = PyNone \/ vals.v = <<>> THEN PyNone
  ELSE LastNumericFrom(vals.v, Len(vals.v))

\* col_labels = [str(h).strip() for h in headers[1:]]
ColLabels(headers) ==
  [i \in 1..(Len(headers) - 1) |-> Strip(StrOf(headers[i + 1]))]

\* is_est = [h.upper().endswith("E") for h in col_labels]
IsEst(col_labels) ==
  [i \in 1..Len(col_labels) |-> EndsWith(Upper(col_labels[i]), "E")]

\* [first_numeric([v]) for i, v in enumerate(row)
\*  if i < len(is_est) and is_est[i] == flag], from position i on
RECURSIVE ColumnVals(_, _, _, _)
ColumnVals(row, is_est, flag, i) ==
  IF i > Len(row) THEN <<>>
  ELSE IF i <= Len(is_est) /\ is_est[i] = flag
    THEN <<first_numeric(PyList(<<row[i]>>))>> \o ColumnVals(row, is_est, flag, i + 1)
  ELSE ColumnVals(row, is_est, flag, i + 1)

\* out = {"eps_yy_ttm": "-", "rev_ann_rep": "-", "rev_ann_est_cur": "-",
\*        "rev_ann_est_fut": "-"}
AnnualPlaceholders ==
  [eps_yy_ttm |-> PyStr(PLACEHOLDER), rev_ann_rep |-> PyStr(PLACEHOLDER),
   rev_ann_est_cur |-> PyStr(PLACEHOLDER),
   rev_ann_est_fut |-> PyStr(PLACEHOLDER)]

\* if row: the row resolved and is a non-empty list
RowFound(row) ==
  row /= PyNone /\ row.v /= <<>>

\* The three assignments of the "if rev_row:" block
RevenueAssign(out, rep_vals, est_vals) ==
  [out EXCEPT
     !.rev_ann_rep =
        IF Len(rep_vals) >= 2
        THEN calc_yoy(rep_vals[Len(rep_vals)], rep_vals[Len(rep_vals) - 1])
        ELSE @,
     !.rev_ann_est_cur =
        IF rep_vals /= <<>> /\ est_vals /= <<>>
        THEN calc_yoy(est_vals[1], rep_vals[Len(rep_vals)])
        ELSE @,
     !.rev_ann_est_fut =
        IF Len(est_vals) >= 2
        THEN calc_yoy(est_vals[2], est_vals[1])
        ELSE @]

\* The "if rev_row:" block
RevenueBlock(out, rev_row, is_est) ==
  IF RowFound(rev_row)
  THEN Only({ RevenueAssign(out, rep_vals, est_vals)
              : rep_vals \in {ColumnVals(rev_row.v, is_est, FALSE, 1)},
                est_vals \in {ColumnVals(rev_row.v, is_est, TRUE, 1)} })
  ELSE out

\* The assignment of the "if eps_row:" block
EpsAssign(out, rep_vals) ==
  [out EXCEPT
     !.eps_yy_ttm =
        IF Len(rep_vals) >= 2
        THEN calc_yoy(rep_vals[Len(rep_vals)], rep_vals[Len(rep_vals) - 1])
        ELSE @]

\* The "if eps_row:" block
EpsBlock(out, eps_row, is_est) ==
  IF RowFound(eps_row)
  THEN Only({ EpsAssign(out, rep_vals)
              : rep_vals \in {ColumnVals(eps_row.v, is_est, FALSE, 1)} })
  ELSE out

REVENUE_CANDIDATES ==
  << <<"R","e","v","e","n","u","e">>,
     <<"T","o","t","a","l"," ","R","e","v","e","n","u","e">>,
     <<"S","a","l","e","s">> >>

EPS_CANDIDATES ==
  << <<"E","P","S">>,
     <<"E","a","r","n","i","n","g","s"," ","P","e","r"," ",
       "S","h","a","r","e">> >>

\* The body of parse_annual_income once headers and row_map are read
AnnualFrom(is_est, row_map) ==
  Only({ EpsBlock(RevenueBlock(AnnualPlaceholders, rev_row, is_est),
                  eps_row, is_est)
         : rev_row \in {find_row(row_map, REVENUE_CANDIDATES)},
           eps_row \in {find_row(row_map, EPS_CANDIDATES)} })

\* parse_annual_income with the revenue-versus-estimate growth taken from
\* the first reported value, not the last.
parse_annual_income_first_reported(data) ==
  IF IsFalsy(data) THEN AnnualPlaceholders
  ELSE LET is_est == IsEst(ColLabels(DataHeaders(data)))
           rev_row == find_row(ajax_row_map(data), REVENUE_CANDIDATES)
           rep_vals == IF RowFound(rev_row)
                       THEN ColumnVals(rev_row.v, is_est, FALSE, 1) ELSE <<>>
           est_vals == IF RowFound(rev_row)
                       THEN ColumnVals(rev_row.v, is_est, TRUE, 1) ELSE <<>>
           out == AnnualFrom(is_est, ajax_row_map(data))
       IN IF rep_vals /= <<>> /\ est_vals /= <<>>
          THEN [out EXCEPT !.rev_ann_est_cur = calc_yoy(est_vals[1], rep_vals[1])]
          ELSE out

\* parse_annual_income with the EPS block nested in the revenue block.
parse_annual_income_eps_inside_revenue(data) ==
  IF IsFalsy(data) THEN AnnualPlaceholders
  ELSE LET is_est == IsEst(ColLabels(DataHeaders(data)))
           row_map == ajax_row_map(data)
           rev_row == find_row(row_map, REVENUE_CANDIDATES)
       IN IF RowFound(rev_row) THEN AnnualFrom(is_est, row_map)
          ELSE AnnualPlaceholders

\* parse_annual_income(data)
parse_annual_income(data) ==
  IF IsFalsy(data) THEN AnnualPlaceholders
  ELSE Only({ AnnualFrom(is_est, row_map)
              : is_est \in {IsEst(ColLabels(DataHeaders(data)))},
                row_map \in {ajax_row_map(data)} })

\* ---- inputs of the annual income parser
\* Header lists: none, only the leading blank, reported then estimate
\* years, an estimate year between reported years written " 2024e ",
\* reported years only, estimate years only.
AnnualHeaders ==
  { <<>>,
    <<PyStr(<<>>)>>,
    <<PyStr(<<>>), PyStr(<<"2","2">>), PyStr(<<"2","3">>),
      PyStr(<<"2","4","E">>), PyStr(<<"2","5","E">>)>>,
    <<PyStr(<<>>), PyStr(<<"2","3">>), PyStr(<<" ","2","4","e"," ">>),
      PyStr(<<"2","5">>)>>,
    <<PyStr(<<>>), PyStr(<<"2","2">>), PyStr(<<"2","3">>)>>,
    <<PyStr(<<>>), PyStr(<<"2","4","E">>), PyStr(<<"2","5","E">>),
      PyStr(<<"2","6","E">>)>> }

\* Rows: revenue-like rows longer and shorter than the headers, with a
\* thousands separator, a placeholder and a zero; EPS-like rows with a
\* placeholder and a cell that is no number; a row of neither kind; a lone
\* label.
AnnualRows ==
  { <<PyStr(<<"T","o","t","a","l"," ","R","e","v","e","n","u","e">>),
      PyStr(<<"1","0","0">>), PyStr(<<"1","1","0">>), PyStr(<<"1","2","1">>),
      PyStr(<<"1","3","3",".","1">>), PyStr(<<"1","5","0">>)>>,
    <<PyStr(<<"S","a","l","e","s">>),
      PyStr(<<"1",",","0","0","0">>), PyStr(<<"-">>),
      PyStr(<<"1",",","2","0","0">>)>>,
    <<PyStr(<<"R","e","v","e","n","u","e">>),
      PyStr(<<"0">>), PyStr(<<"5","0">>)>>,
    <<PyStr(<<"E","P","S"," ","(","D","i","l","u","t","e","d",")">>),
      PyStr(<<"1",".","0">>), PyStr(<<"1",".","5">>), PyStr(<<"N","/","A">>),
      PyStr(<<"2">>)>>,
    <<PyStr(<<" ","e","p","s"," ">>),
      PyStr(<<"2">>), PyStr(<<"a","b","c">>), PyStr(<<"1">>)>>,
    <<PyStr(<<"N","e","t"," ","I","n","c","o","m","e">>),
      PyStr(<<"5">>), PyStr(<<"6">>), PyStr(<<"7">>)>>,
    <<PyStr(<<"E","P","S">>)>> }

\* The rows of a table, in any order: a statement lists a row once (a second
\* copy of the very same row changes nothing in ajax_row_map).
AnnualRowLists ==
  {rows \in SeqsUpTo(AnnualRows, MaxRows) : IsInjective(rows)}

AnnualTables ==
  {PyNone, EmptyDict}
    \cup {Table(FALSE, <<>>, TRUE, rows) : rows \in AnnualRowLists}
    \cup {Table(TRUE, headers, FALSE, <<>>) : headers \in AnnualHeaders}
    \cup {Table(TRUE, headers, TRUE, rows)
            : headers \in AnnualHeaders, rows \in AnnualRowLists}

CallParseAnnualIncome ==
  /\ pc = "idle"
  /\ \E data \in AnnualTables :
       /\ args' = <<data>>
       /\ ret' = parse_annual_income(data)
  /\ op' = "parse_annual_income"
  /\ pc' = "returned"
  /\ UNCHANGED stepVars

CallFirstNumeric ==
  /\ pc = "idle"
  /\ \E row \in AnnualRows :
       /\ args' = <<PyList(CleanVals(row))>>
       /\ ret' = first_numeric(PyList(CleanVals(row)))
  /\ op' = "first_numeric"
  /\ pc' = "returned"
  /\ UNCHANGED stepVars

NextAnnual ==
  CallParseAnnualIncome \/ CallFirstNumeric \/ Return

SpecAnnual ==
  Init /\ [][NextAnnual]_vars

\* ---- inputs of the numeric scans
\* Values of a row: the empty string, the placeholders, a stringified
\* null, a blank, a word, numbers with and without blanks around, "nan".
NumericTokens ==
  { <<>>, <<"-">>, <<"N","/","A">>, <<"N","o","n","e">>, <<" ">>,
    <<"a","b","c">>, <<"1",".","5">>, <<" ","2"," ">>, <<"n","a","n">> }

\* None and the lists of at most MaxLen values.
NumericLists ==
  {PyNone} \cup {PyList(v) : v \in SeqsUpTo(NumericTokens, MaxLen)}

CallFirstNumericList ==
  /\ pc = "idle"
  /\ \E vals \in NumericLists :
       /\ args' = <<vals>>
       /\ ret' = first_numeric(vals)
  /\ op' = "first_numeric"
  /\ pc' = "returned"
  /\ UNCHANGED stepVars

CallLastNumeric ==
  /\ pc = "idle"
  /\ \E vals \in NumericLists :
       /\ args' = <<vals>>
       /\ ret' = last_numeric(vals)
  /\ op' = "last_numeric"
  /\ pc' = "returned"
  /\ UNCHANGED stepVars

NextNumeric ==
  CallFirstNumericList \/ CallLastNumeric \/ Return

SpecNumeric ==
  Init /\ [][NextNumeric]_vars

\* ------------------------------------------------ earnings/estimates parser
\* int(v) for a finite float: truncation toward zero
FloatTrunc(v) ==
  IF v.k = "dec"
  THEN (IF v.e >= 0 THEN v.m * Pow10(v.e)
        ELSE IF v.m >= 0 THEN v.m \div Pow10(-v.e)
        ELSE -((-v.m) \div Pow10(-v.e)))
  ELSE (IF v.neg THEN -(v.n \div v.d) ELSE v.n \div v.d)

\* str(n) for an integer
IntStr(n) ==
  IF n < 0 THEN <<"-">> \o NatStr(-n) ELSE NatStr(n)

\* revision_val(row): int() raises ValueError on NaN and OverflowError on
\* an infinity.
revision_val(row) ==
  IF ~RowFound(row) THEN PyStr(PLACEHOLDER)
  ELSE Only({ IF v = PyNone THEN PyStr(PLACEHOLDER)
              ELSE IF v.k = "nan" THEN Raised("ValueError")
              ELSE IF v.k \in {"inf", "ninf"} THEN Raised("OverflowError")
              ELSE PyStr(IntStr(FloatTrunc(v)))
              : v \in {first_numeric(row)} })

\* The values the actuals comprehension drops
ACTUALS_SKIP ==
  {<<"-">>, <<"N","/","A">>, <<>>}

\* actuals = [v for v in act if v and v not in ("-","N/A","")]
Actuals(act) ==
  SelectSeq(act, LAMBDA v : v /= <<>> /\ v \notin ACTUALS_SKIP)

\* The estimate growth taken from the first numeric actual value.
EstimateGrowth_first_actual(est, act) ==
  calc_yoy(first_numeric(est), first_numeric(act))

\* calc_yoy(first_numeric(est), last_numeric(act))
EstimateGrowth(est, act) ==
  calc_yoy(first_numeric(est), last_numeric(act))

\* calc_yoy(first_numeric([actuals[-1]]), first_numeric([actuals[-2]]))
ReportedGrowth(actuals) ==
  calc_yoy(first_numeric(PyList(<<actuals[Len(actuals)]>>)),
           first_numeric(PyList(<<actuals[Len(actuals) - 1]>>)))

\* One quarterly block: "if est and act" and "if act" with their
\* assignments to out[estKey] and out[repKey].
QuarterAssign(out, est, act, estKey, repKey) ==
  LET withEst == IF RowFound(est) /\ RowFound(act)
                 THEN [out EXCEPT ![estKey] = EstimateGrowth(est, act)]
                 ELSE out
  IN IF RowFound(act)
     THEN Only({ IF Len(actuals) >= 2
                 THEN [withEst EXCEPT ![repKey] = ReportedGrowth(actuals)]
                 ELSE withEst
                 : actuals \in {Actuals(act.v)} })
     ELSE withEst

EPS_EST_CANDIDATES ==
  << <<"E","P","S"," ","E","s","t","i","m","a","t","e">>,
     <<"E","P","S"," ","E","s","t",".">> >>

EPS_ACT_CANDIDATES ==
  << <<"E","P","S"," ","A","c","t","u","a","l">>,
     <<"E","P","S"," ","A","c","t",".">> >>

REV_EST_CANDIDATES ==
  << <<"R","e","v","e","n","u","e"," ","E","s","t","i","m","a","t","e">>,
     <<"S","a","l","e","s"," ","E","s","t","i","m","a","t","e">>,
     <<"R","e","v","."," ","E","s","t","i","m","a","t","e">> >>

REV_ACT_CANDIDATES ==
  << <<"R","e","v","e","n","u","e"," ","A","c","t","u","a","l">>,
     <<"S","a","l","e","s"," ","A","c","t","u","a","l">>,
     <<"R","e","v","."," ","A","c","t","u","a","l">> >>

EPS_UP_CANDIDATES ==
  << <<"E","P","S"," ","U","p">> >>

EPS_DOWN_CANDIDATES ==
  << <<"E","P","S"," ","D","o","w","n">>, <<"E","P","S"," ","D","n">> >>

SALES_UP_CANDIDATES ==
  << <<"R","e","v","e","n","u","e"," ","U","p">>, <<"R","e","v"," ","U","p">>,
     <<"S","a","l","e","s"," ","U","p">> >>

SALES_DOWN_CANDIDATES ==
  << <<"R","e","v","e","n","u","e"," ","D","o","w","n">>,
     <<"R","e","v"," ","D","o","w","n">>,
     <<"S","a","l","e","s"," ","D","o","w","n">> >>

\* out = {"eps_q_est": "-", ..., "sales_revisions_down": "-"}
EarningsPlaceholders ==
  [eps_q_est |-> PyStr(PLACEHOLDER), eps_q_rep |-> PyStr(PLACEHOLDER),
   rev_q_est |-> PyStr(PLACEHOLDER), rev_q_rep |-> PyStr(PLACEHOLDER),
   eps_revisions_up |-> PyStr(PLACEHOLDER),
   eps_revisions_down |-> PyStr(PLACEHOLDER),
   sales_revisions_up |-> PyStr(PLACEHOLDER),
   sales_revisions_down |-> PyStr(PLACEHOLDER)]

\* The four revision assignments in program order; the first revision_val
\* that raises ends the function with its exception.
RevisionsAssign(out, up, down, sup, sdown) ==
  IF up.k = "raise" THEN up
  ELSE IF down.k = "raise" THEN down
  ELSE IF sup.k = "raise" THEN sup
  ELSE IF sdown.k = "raise" THEN sdown
  ELSE [out EXCEPT !.eps_revisions_up = up, !.eps_revisions_down = down,
                   !.sales_revisions_up = sup, !.sales_revisions_down = sdown]

\* The body of parse_earnings_estimates once row_map is built
EarningsFrom(row_map) ==
  Only({ RevisionsAssign(quarters,
           revision_val(find_row(row_map, EPS_UP_CANDIDATES)),
           revision_val(find_row(row_map, EPS_DOWN_CANDIDATES)),
           revision_val(find_row(row_map, SALES_UP_CANDIDATES)),
           revision_val(find_row(row_map, SALES_DOWN_CANDIDATES)))
         : quarters \in
             { QuarterAssign(
                 QuarterAssign(EarningsPlaceholders,
                               find_row(row_map, EPS_EST_CANDIDATES),
                               find_row(row_map, EPS_ACT_CANDIDATES),
                               "eps_q_est", "eps_q_rep"),
                 find_row(row_map, REV_EST_CANDIDATES),
                 find_row(row_map, REV_ACT_CANDIDATES),
                 "rev_q_est", "rev_q_rep") } })

\* parse_earnings_estimates(data)
parse_earnings_estimates(data) ==
  IF IsFalsy(data) THEN EarningsPlaceholders
  ELSE Only({ EarningsFrom(row_map) : row_map \in {ajax_row_map(data)} })

\* ---- inputs of the earnings/estimates parser
\* Rows: estimate rows that start with placeholders; actual rows with a
\* placeholder between and after the values, with a trailing null, and
\* with one value only; revenue rows with thousands separators and a zero;
\* revision rows with a fraction, with a leading placeholder, and with "nan".
EarningsRows ==
  { <<PyStr(<<"E","P","S"," ","E","s","t","i","m","a","t","e">>),
      PyStr(<<"-">>), PyStr(<<"1",".","2">>), PyStr(<<"1",".","3">>)>>,
    <<PyStr(<<"E","P","S"," ","A","c","t","u","a","l">>),
      PyStr(<<"1",".","0">>), PyStr(<<"-">>), PyStr(<<"1",".","5">>),
      PyStr(<<"N","/","A">>)>>,
    <<PyStr(<<"E","P","S"," ","A","c","t","u","a","l">>),
      PyStr(<<"1",".","0">>), PyStr(<<"1",".","5">>), PyNone>>,
    <<PyStr(<<"e","p","s"," ","a","c","t",".">>),
      PyStr(<<"2">>), PyStr(<<"-">>)>>,
    <<PyStr(<<"R","e","v","e","n","u","e"," ","E","s","t","i","m","a","t","e">>),
      PyStr(<<"a","b","c">>), PyStr(<<"1",",","1","0","0">>), PyStr(<<>>)>>,
    <<PyStr(<<"S","a","l","e","s"," ","A","c","t","u","a","l">>),
      PyStr(<<"9","0","0">>), PyStr(<<"0">>), PyStr(<<"1",",","0","0","0">>)>>,
    <<PyStr(<<"E","P","S"," ","U","p">>), PyStr(<<"1","2",".","7">>)>>,
    <<PyStr(<<"E","P","S"," ","D","n">>), PyStr(<<"-">>), PyStr(<<"3">>)>>,
    <<PyStr(<<"R","e","v"," ","D","o","w","n">>), PyStr(<<"n","a","n">>)>> }

EarningsTables ==
  {PyNone, EmptyDict, Table(TRUE, <<>>, FALSE, <<>>)}
    \cup {Table(FALSE, <<>>, TRUE, rows)
            : rows \in SeqsUpTo(EarningsRows, MaxRows)}

CallParseEarningsEstimates ==
  /\ pc = "idle"
  /\ \E data \in EarningsTables :
       /\ args' = <<data>>
       /\ ret' = parse_earnings_estimates(data)
  /\ op' = "parse_earnings_estimates"
  /\ pc' = "returned"
  /\ UNCHANGED stepVars

NextEarnings ==
  CallParseEarningsEstimates \/ Return

SpecEarnings ==
  Init /\ [][NextEarnings]_vars


\* ------------------------------------------------------------ the fetchers
MAX_RETRIES == 3

\* The dict fetch_fundament returns, d being the snapshot
Fundament(d) ==
  [k |-> "fundament", d |-> d]

\* What finvizfinance(ticker).ticker_fundament() can answer when it does
\* not raise: None, an empty dict, a snapshot.
FundamentResults ==
  {PyNone, Fundament(EmptySnapshot), Fundament(SampleSnapshot)}

\* What r.json() can answer when the request does not raise: null, an
\* empty object, a table.
AjaxResults ==
  {PyNone, EmptyDict, Table(TRUE, <<PyStr(<<>>)>>, TRUE, <<>>)}

StatementCodes ==
  {<<"I","A">>, <<"I","Q">>, <<"E","D">>}

\* The value after the loop: {} for fetch_fundament, None for fetch_ajax
FailureValue(f) ==
  IF f = "fetch_fundament" THEN Fundament(EmptySnapshot) ELSE PyNone

\* The value of the return statement in the try block: ticker_fundament()
\* or {} for fetch_fundament, r.json() for fetch_ajax
SuccessValue(f, v) ==
  IF f = "fetch_fundament"
  THEN (IF v = PyNone \/ v = Fundament(EmptySnapshot)
        THEN Fundament(EmptySnapshot) ELSE v)
  ELSE v

\* The back-off sleeping the same two seconds after every failure.
BackoffSeconds_flat(n) ==
  2

\* time.sleep(2 * attempt)
BackoffSeconds(n) ==
  2 * n

\* fetch_fundament(ticker) enters its loop with attempt = 1
CallFetchFundament ==
  /\ pc = "idle"
  /\ \E ticker \in Tickers : args' = <<ticker>>
  /\ op' = "fetch_fundament"
  /\ attempt' = 1
  /\ pc' = "try"
  /\ UNCHANGED <<ret, log, screened, stocks_raw, page>>

\* fetch_ajax(ticker, statement_code) enters its loop with attempt = 1
CallFetchAjax ==
  /\ pc = "idle"
  /\ \E ticker \in Tickers, statement_code \in StatementCodes :
       args' = <<ticker, statement_code>>
  /\ op' = "fetch_ajax"
  /\ attempt' = 1
  /\ pc' = "try"
  /\ UNCHANGED <<ret, log, screened, stocks_raw, page>>

\* The try block runs through and returns.
AttemptSucceeds ==
  /\ pc = "try"
  /\ \E v \in IF op = "fetch_fundament" THEN FundamentResults ELSE AjaxResults :
       /\ log' = Append(log, [e |-> "attempt", n |-> attempt, ok |-> TRUE,
                              val |-> v])
       /\ ret' = SuccessValue(op, v)
  /\ pc' = "returned"
  /\ UNCHANGED <<op, args, attempt, screened, stocks_raw, page>>

\* The try block raises an Exception, which the except clause catches.
AttemptFails ==
  /\ pc = "try"
  /\ log' = Append(log, [e |-> "attempt", n |-> attempt, ok |-> FALSE,
                         val |-> PyNone])
  /\ pc' = "failed"
  /\ UNCHANGED <<op, args, ret, attempt, screened, stocks_raw, page>>

\* if attempt < MAX_RETRIES: time.sleep(2 * attempt), then the next attempt
Backoff ==
  /\ pc = "failed"
  /\ attempt < MAX_RETRIES
  /\ log' = Append(log, [e |-> "sleep", n |-> BackoffSeconds(attempt)])
  /\ attempt' = attempt + 1
  /\ pc' = "try"
  /\ UNCHANGED <<op, args, ret, screened, stocks_raw, page>>

\* The loop is exhausted: the statement after it returns the failure value.
GiveUp ==
  /\ pc = "failed"
  /\ ~(attempt < MAX_RETRIES)
  /\ ret' = FailureValue(op)
  /\ pc' = "returned"
  /\ UNCHANGED <<op, args, attempt, log, screened, stocks_raw, page>>

FetchStep ==
  AttemptSucceeds \/ AttemptFails \/ Backoff \/ GiveUp

NextFetch ==
  CallFetchFundament \/ CallFetchAjax \/ FetchStep \/ Return

\* A fetcher that has been called keeps running: its steps are not put off
\* for ever.
SpecFetch ==
  Init /\ [][NextFetch]_vars /\ WF_vars(FetchStep)


\* ------------------------------------------------------- the main pipeline
\* ord(c) of an upper-case letter: Python compares strings by code point
CodePoint(c) ==
  64 + (CHOOSE i \in 1..Len(UpperLetters) : UpperLetters[i] = c)

\* a < b on Python strings
StrLess(a, b) ==
  \E i \in 1..(Len(b)) :
    /\ \A j \in 1..(i - 1) : j <= Len(a) /\ a[j] = b[j]
    /\ (i > Len(a) \/ CodePoint(a[i]) < CodePoint(b[i]))

\* list.sort(key=lambda s: s["ticker"]) is stable: a record goes behind
\* the records whose ticker is not greater than its own.
InsertByTicker(sorted, s) ==
  LET p == Cardinality({i \in 1..Len(sorted) :
                          ~StrLess(s.ticker, sorted[i].ticker)})
  IN SubSeq(sorted, 1, p) \o <<s>> \o SubSeq(sorted, p + 1, Len(sorted))

RECURSIVE SortByTicker(_)
SortByTicker(stocks) ==
  IF Len(stocks) = 0 THEN <<>>
  ELSE InsertByTicker(SortByTicker(SubSeq(stocks, 1, Len(stocks) - 1)),
                      stocks[Len(stocks)])

\* The filter that also drops the records of unknown size.
KeepStock_known_size(s) ==
  s.cap_category \notin {"Under $2B", "Unknown"}

\* s["cap_category"] != "Under $2B"
KeepStock(s) ==
  s.cap_category /= "Under $2B"

\* The tickers the screener can list, and its answers: each company once,
\* in the screener's order (by market cap), possibly none.
ScreenerTickers ==
  {<<"M","S","F","T">>, <<"A","A","P","L">>, <<"A","A">>}

ScreenerLists ==
  {s \in SeqsUpTo(ScreenerTickers, Cardinality(ScreenerTickers)) :
     \A i, j \in 1..Len(s) : s[i] = s[j] => i = j}

\* What fetch_fundament can return in the pipeline: {} after a failure, a
\* snapshot of a large company, one of a company under two billion.
PipelineSnapshots ==
  {EmptySnapshot, SampleSnapshot,
   WithField(SampleSnapshot, "Market Cap", PyStr(<<"8","5","0","M">>))}

\* main() starts: scrape_all_tickers() asks the screener for its tickers.
CallMain ==
  /\ pc = "idle"
  /\ \E tickers \in ScreenerLists : screened' = tickers
  /\ op' = "main"
  /\ pc' = "scrape"
  /\ UNCHANGED <<args, ret, attempt, log, stocks_raw, page>>

\* One turn of the loop of scrape_all_tickers: fetch_fundament(ticker) and
\* records.append.
FetchNext ==
  /\ pc = "scrape"
  /\ Len(stocks_raw) < Len(screened)
  /\ \E fundament \in PipelineSnapshots :
       LET ticker == screened[Len(stocks_raw) + 1]
       IN /\ log' = Append(log, [e |-> "fetch", ticker |-> ticker])
          /\ stocks_raw' = Append(stocks_raw, [ticker |-> ticker,
                                               fundament |-> fundament])
  /\ UNCHANGED <<pc, op, args, ret, attempt, screened, page>>

\* if not stocks_raw: return
ExitNoData ==
  /\ pc = "scrape"
  /\ Len(stocks_raw) = Len(screened)
  /\ Len(stocks_raw) = 0
  /\ pc' = "returned"
  /\ UNCHANGED <<op, args, ret, attempt, log, screened, stocks_raw, page>>

\* The rest of main(): build the records, filter, sort, write the page with
\* the list in it.
BuildPage ==
  /\ pc = "scrape"
  /\ Len(stocks_raw) = Len(screened)
  /\ Len(stocks_raw) > 0
  /\ page' = PyList(SortByTicker(SelectSeq(
                [i \in 1..Len(stocks_raw) |-> build_stock_record(stocks_raw[i])],
                KeepStock)))
  /\ pc' = "returned"
  /\ UNCHANGED <<op, args, ret, attempt, log, screened, stocks_raw>>

NextMain ==
  CallMain \/ FetchNext \/ ExitNoData \/ BuildPage \/ Return

SpecMain ==
  Init /\ [][NextMain]_vars


\* ----------------------------------------------------- claims on calc_yoy
IsCalcYoy ==
  pc = "returned" /\ op = "calc_yoy"

\* C2: calc_yoy(current, prior) returns the placeholder "-" whenever current
\* is absent, prior is absent, or prior equals exactly zero, whatever the
\* other operand is; it does not raise in these cases.
C2_PlaceholderOnAbsentOrZeroPrior ==
  IsCalcYoy =>
    LET current == args[1]
        prior == args[2]
    IN (current = PyNone \/ prior = PyNone
          \/ (prior.k = "dec" /\ prior.m = 0))
       => ret = PyStr(<<"-">>)

\* C2 witness: a zero prior met with a NaN current, answered by "-".
C2_Witness ==
  /\ IsCalcYoy
  /\ args[1] = NaN
  /\ args[2] = Dec(0, 1)
  /\ ret = PyStr(<<"-">>)

\* C3 as stated: for present operands with prior != 0 the result is a string
\* that starts with "+" exactly when current >= prior and with "-" exactly
\* when current < prior.
C3_SignFollowsComparison ==
  IsCalcYoy =>
    LET current == args[1]
        prior == args[2]
    IN (current # PyNone /\ prior # PyNone /\ ~FloatIsZero(prior))
       => /\ ret.k = "str"
          /\ (ret.s[1] = "+") <=> FloatGeq(current, prior)
          /\ (ret.s[1] = "-") <=> FloatLess(current, prior)

\* The sign rule of C3 on finite operands, where it does hold: the failures
\* of C3_SignFollowsComparison all have a NaN or an infinite operand.
C3_SignOnFiniteOperands ==
  IsCalcYoy =>
    LET current == args[1]
        prior == args[2]
    IN (current.k = "dec" /\ prior.k = "dec" /\ prior.m # 0)
       => /\ ret.k = "str"
          /\ (ret.s[1] = "+") <=> FloatGeq(current, prior)
          /\ (ret.s[1] = "-") <=> FloatLess(current, prior)
          /\ Len(ret.s) >= 5
          /\ ret.s[Len(ret.s)] = "%"
          /\ ret.s[Len(ret.s) - 2] = "."

\* ------------------------------------- claims on the magnitude classifier
IsGetCapCategory ==
  pc = "returned" /\ op = "get_cap_category"

IsParseMarketCapValue ==
  pc = "returned" /\ op = "parse_market_cap_value"

\* The finite operand v of get_cap_category in tenths of a billion.
CapTenths(v) ==
  v.m * Pow10(v.e + 1)

CapRank(category) ==
  CASE category = "Under $2B" -> 0
    [] category = "Mid Cap" -> 1
    [] category = "Large Cap" -> 2
    [] category = "Mega Cap" -> 3
    [] OTHER -> -1

\* C4: get_cap_category is total onto the five labels: absent -> "Unknown";
\* value >= 200 -> "Mega Cap"; 20 <= value < 200 -> "Large Cap";
\* 2 <= value < 20 -> "Mid Cap"; value < 2 -> "Under $2B".  The boundary
\* values 200, 20 and 2 take the higher tier, and a larger value never
\* takes a lower tier.
C4_CapCategoryTiers ==
  IsGetCapCategory =>
    LET v == args[1]
    IN /\ ret \in {"Unknown", "Mega Cap", "Large Cap", "Mid Cap", "Under $2B"}
       /\ (ret = "Unknown") <=> (v = PyNone)
       /\ v = PosInf => ret = "Mega Cap"
       /\ v = NegInf => ret = "Under $2B"
       /\ v.k = "dec" =>
            /\ CapTenths(v) >= 2000 => ret = "Mega Cap"
            /\ (200 <= CapTenths(v) /\ CapTenths(v) < 2000) => ret = "Large Cap"
            /\ (20 <= CapTenths(v) /\ CapTenths(v) < 200) => ret = "Mid Cap"
            /\ CapTenths(v) < 20 => ret = "Under $2B"
            /\ \A w \in CapOperands :
                 (w.k = "dec" /\ CapTenths(v) <= CapTenths(w))
                   => CapRank(ret) <= CapRank(get_cap_category(w))

\* C4 witness: the boundary value 200 (20 * 10^1) classified "Mega Cap".
C4_Witness ==
  /\ IsGetCapCategory
  /\ args[1] = Dec(20, 1)
  /\ ret = "Mega Cap"

\* What C5 says of a token that is no placeholder: the trimmed, uppercased
\* token ending in "T" yields prefix * 1000, in "B" the prefix, in "M"
\* prefix / 1000, any other token number / 1e9; absent when float() fails.
C5_ScaledValue(token) ==
  LET s == Upper(Strip(token))
      prefix == ParseFloat(Slice(s, 1, Len(s) - 1))
      number == ParseFloat(s)
      scaled(x, n) ==
        IF x = PyNone THEN PyNone
        ELSE IF x.k = "dec" THEN Norm(x.m, x.e + n)
        ELSE x
  IN CASE EndsWith(s, "T") -> scaled(prefix, 3)
       [] EndsWith(s, "B") -> scaled(prefix, 0)
       [] EndsWith(s, "M") -> scaled(prefix, -3)
       [] OTHER -> scaled(number, -9)

\* The placeholder tokens C5 names: empty, "-", "N/A", "None" in any letter
\* case (after trimming).
C5_NamedPlaceholder(token) ==
  Lower(Strip(token)) \in
    {<<>>, <<"-">>, <<"n","/","a">>, <<"n","o","n","e">>}

\* C5 as stated: absent for the named placeholder tokens (and for None),
\* and for every other token the scaled value of its suffix branch, absent
\* when the numeric prefix does not parse; never an exception.
C5_MagnitudeAsStated ==
  IsParseMarketCapValue =>
    LET cap_str == args[1]
    IN IF cap_str = PyNone THEN ret = PyNone
       ELSE IF C5_NamedPlaceholder(cap_str.s) THEN ret = PyNone
       ELSE ret = C5_ScaledValue(cap_str.s)

\* C5 amended: the token "nan" (exactly so spelt, after trimming) is a
\* placeholder too and yields absent, although float() parses it.
C5_MagnitudeWithNanPlaceholder ==
  IsParseMarketCapValue =>
    LET cap_str == args[1]
    IN IF cap_str = PyNone THEN ret = PyNone
       ELSE IF C5_NamedPlaceholder(cap_str.s)
                 \/ Strip(cap_str.s) = <<"n","a","n">>
         THEN ret = PyNone
       ELSE ret = C5_ScaledValue(cap_str.s)

\* C5 witness: " 5.2b ", blanks around and a lowercase suffix, parsed to 5.2
\* (52 * 10^-1).
C5_Witness ==
  /\ IsParseMarketCapValue
  /\ args[1] = PyStr(<<" ","5",".","2","b"," ">>)
  /\ ret = Dec(52, -1)

\* --------------------------------------------- claims on the row resolver
IsFindRow ==
  pc = "returned" /\ op = "find_row"

IsAjaxRowMap ==
  pc = "returned" /\ op = "ajax_row_map"

\* The indices of the keys of row_map whose lowercase form contains the
\* lowercase form of candidate c.
C6_Matches(row_map, c) ==
  {i \in 1..Len(row_map) : Contains(Lower(row_map[i].key), Lower(c))}

\* C6: find_row returns the values of the first key, in insertion order,
\* that contains (case-insensitively) the earliest candidate matching any
\* key at all, whatever keys the later candidates match; it returns absent
\* exactly when no key contains any candidate.
C6_FindRowCandidatePriority ==
  IsFindRow =>
    LET row_map == args[1]
        candidates == args[2]
        live == {j \in 1..Len(candidates) :
                   C6_Matches(row_map, candidates[j]) # {}}
    IN /\ (ret = PyNone) <=> (live = {})
       /\ live # {} =>
            LET first == CHOOSE j \in live : \A l \in live : j <= l
                hits == C6_Matches(row_map, candidates[first])
                key == CHOOSE i \in hits : \A h \in hits : i <= h
            IN ret = PyList(row_map[key].vals)

\* C6 witness: the first candidate matches only the second key, the second
\* candidate matches the first key, and the second row is returned.
C6_Witness ==
  /\ IsFindRow
  /\ Len(args[1]) = 2
  /\ Len(args[2]) = 2
  /\ C6_Matches(args[1], args[2][1]) = {2}
  /\ 1 \in C6_Matches(args[1], args[2][2])
  /\ ret = PyList(args[1][2].vals)

\* The label and the values ajax_row_map stores for a row.
C7_Label(row) ==
  Strip(StrOf(row[1]))

C7_Values(row) ==
  [i \in 1..(Len(row) - 1) |-> Strip(RemoveChar(StrOf(row[i + 1]), ","))]

\* C7: ajax_row_map skips the rows with fewer than 2 cells and stores every
\* other row under its (stringified, trimmed) label with the remaining
\* cells stringified, commas removed and trimmed; of several rows with one
\* label the last is the one stored; an absent or empty table gives the
\* empty map.
C7_RowMapLastWins ==
  IsAjaxRowMap =>
    LET data == args[1]
        rows == IF data = PyNone \/ ~data.hasData THEN <<>> ELSE data.data
        kept == {i \in 1..Len(rows) : Len(rows[i]) >= 2}
    IN /\ \A i, j \in 1..Len(ret) : ret[i].key = ret[j].key => i = j
       /\ {ret[i].key : i \in 1..Len(ret)} = {C7_Label(rows[i]) : i \in kept}
       /\ \A e \in 1..Len(ret) :
            LET same == {i \in kept : C7_Label(rows[i]) = ret[e].key}
                last == CHOOSE i \in same : \A j \in same : i >= j
            IN ret[e].vals = C7_Values(rows[last])
       /\ (data = PyNone \/ rows = <<>>) => ret = <<>>

\* C7 witness: three rows, the first and the last with the same label once
\* trimmed and different values, the middle one too short; one entry, with
\* the values of the last row.
C7_Witness ==
  /\ IsAjaxRowMap
  /\ args[1] # PyNone
  /\ Len(args[1].data) = 3
  /\ Len(args[1].data[1]) >= 2
  /\ Len(args[1].data[2]) < 2
  /\ Len(args[1].data[3]) >= 2
  /\ args[1].data[1][1] # args[1].data[3][1]
  /\ C7_Values(args[1].data[1]) # C7_Values(args[1].data[3])
  /\ Len(ret) = 1
  /\ ret[1].vals = C7_Values(args[1].data[3])

\* -------------------------------------------- claims on the record builder
IsBuildStockRecord ==
  pc = "returned" /\ op = "build_stock_record"

\* The source value of a snapshot field is missing, None, empty,
\* whitespace-only, "-", "nan" or "None" (blanks around it disregarded).
C1_SourceAbsent(fund, key) ==
  \/ key \notin DOMAIN fund
  \/ fund[key] = PyNone
  \/ Strip(fund[key].s) \in {<<>>, <<"-">>, <<"n","a","n">>, <<"N","o","n","e">>}

\* The display fields read from the snapshot, with the field each is read
\* from.
C1_SourceOf ==
  [ market_cap |-> "Market Cap",
    next_earnings |-> "Earnings",
    eps_yy_ttm |-> "EPS Y/Y TTM",
    sales_yy_ttm |-> "Sales Y/Y TTM",
    eps_q_rep |-> "EPS Q/Q",
    sales_q_rep |-> "Sales Q/Q",
    eps_surpr |-> "EPS/Sales Surpr.",
    sales_surpr |-> "EPS/Sales Surpr.",
    avg_target_price |-> "Target Price" ]

\* C1: for every snapshot, the empty one included, build_stock_record
\* returns a record with exactly the eleven keys, and every field read from
\* the snapshot whose source value is missing, empty, whitespace-only, "-",
\* "nan" or "None" is exactly "-" (no display field is ever "", "nan" or
\* "None").
C1_FixedShapeAndPlaceholder ==
  IsBuildStockRecord =>
    LET fund == args[1].fundament
    IN /\ DOMAIN ret =
            {"ticker", "market_cap", "cap_category", "next_earnings",
             "eps_yy_ttm", "sales_yy_ttm", "eps_q_rep", "sales_q_rep",
             "eps_surpr", "sales_surpr", "avg_target_price"}
       /\ ret.ticker = args[1].ticker
       /\ \A f \in DOMAIN C1_SourceOf :
            /\ C1_SourceAbsent(fund, C1_SourceOf[f]) => ret[f] = <<"-">>
            /\ ret[f] \notin {<<>>, <<"n","a","n">>, <<"N","o","n","e">>}

\* C1 witness: the empty snapshot, every display field "-".
C1_Witness ==
  /\ IsBuildStockRecord
  /\ DOMAIN args[1].fundament = {}
  /\ \A f \in DOMAIN C1_SourceOf : ret[f] = <<"-">>
  /\ ret.cap_category = "Unknown"

\* t is: an optional minus, digits, optionally a decimal point and digits,
\* a percent sign.
C8_IsToken(t) ==
  LET u == IF Len(t) >= 1 /\ t[1] = "-" THEN Tail(t) ELSE t
      n == Len(u) - 1
  IN /\ n >= 1
     /\ u[n + 1] = "%"
     /\ \E d \in 1..n :
          /\ \A i \in 1..d : IsDigit(u[i])
          /\ d = n \/ (u[d + 1] = "." /\ \A i \in (d + 2)..n : IsDigit(u[i]))

\* The start of the leftmost token of s that starts at or after index from
\* (0 when there is none), and the index after the token that starts at i.
C8_NextStart(s, from) ==
  LET starts == {i \in from..Len(s) :
                   \E j \in i..Len(s) : C8_IsToken(Slice(s, i, j))}
  IN IF starts = {} THEN 0 ELSE CHOOSE i \in starts : \A k \in starts : i <= k

C8_EndOf(s, i) ==
  1 + CHOOSE j \in i..Len(s) : C8_IsToken(Slice(s, i, j))

\* C8: eps_surpr is the first and sales_surpr the second of the
\* non-overlapping tokens found left to right in the "EPS/Sales Surpr."
\* value; a field without its token is "-", as are both for a missing or
\* placeholder value; tokens after the second are ignored.
C8_SurpriseSplit ==
  IsBuildStockRecord =>
    LET fund == args[1].fundament
        s == IF C1_SourceAbsent(fund, "EPS/Sales Surpr.") THEN <<>>
             ELSE Strip(fund["EPS/Sales Surpr."].s)
        first == C8_NextStart(s, 1)
        second == IF first = 0 THEN 0 ELSE C8_NextStart(s, C8_EndOf(s, first))
    IN /\ ret.eps_surpr =
            IF first = 0 THEN <<"-">>
            ELSE Slice(s, first, C8_EndOf(s, first) - 1)
       /\ ret.sales_surpr =
            IF second = 0 THEN <<"-">>
            ELSE Slice(s, second, C8_EndOf(s, second) - 1)

\* C8 witness: the value "-1.5%0.3%7%" of three tokens, the first two taken.
C8_Witness ==
  /\ IsBuildStockRecord
  /\ "EPS/Sales Surpr." \in DOMAIN args[1].fundament
  /\ args[1].fundament["EPS/Sales Surpr."]
       = PyStr(<<"-","1",".","5","%","0",".","3","%","7","%">>)
  /\ ret.eps_surpr = <<"-","1",".","5","%">>
  /\ ret.sales_surpr = <<"0",".","3","%">>

\* ------------------------------------- claims on the annual income parser
IsParseAnnualIncome ==
  pc = "returned" /\ op = "parse_annual_income"

\* Column i (after the leading header) is an estimate: its trimmed header
\* ends in "E" or "e".
C9_Estimate(headers, i) ==
  LET h == Strip(StrOf(headers[i + 1]))
  IN Len(h) >= 1 /\ h[Len(h)] \in {"E", "e"}

\* The positions of row that lie under a header of the given kind.
C9_Columns(headers, row, estimate) ==
  {i \in 1..Len(row) : i <= Len(headers) - 1
                         /\ C9_Estimate(headers, i) = estimate}

C9_Max(S) ==
  CHOOSE i \in S : \A j \in S : j <= i

\* The value at the n-th position of S counted from the start (n > 0) or
\* from the end (n < 0), absent when the cell is no number.
C9_Nth(row, S, n) ==
  LET i == IF n = 1 THEN MinOf(S)
           ELSE IF n = 2 THEN MinOf(S \ {MinOf(S)})
           ELSE IF n = -1 THEN C9_Max(S)
           ELSE C9_Max(S \ {C9_Max(S)})
  IN first_numeric(PyList(<<row[i]>>))

\* The growth of the n-th value of the columns S over the m-th value of
\* the columns T, the placeholder when either column does not exist.
C9_Growth(row, S, n, T, m) ==
  IF row = PyNone \/ Cardinality(S) < AbsInt(n) \/ Cardinality(T) < AbsInt(m)
  THEN PyStr(PLACEHOLDER)
  ELSE calc_yoy(C9_Nth(row.v, S, n), C9_Nth(row.v, T, m))

C9_Reported(data, row) ==
  IF row = PyNone THEN {} ELSE C9_Columns(DataHeaders(data), row.v, FALSE)

C9_Estimates(data, row) ==
  IF row = PyNone THEN {} ELSE C9_Columns(DataHeaders(data), row.v, TRUE)

\* C9: parse_annual_income takes a column after the leading header for an
\* estimate iff its trimmed header ends in "E" in either case, passes over
\* the row values that lie beyond the headers, and answers
\* rev_ann_rep = growth(last reported revenue, second-to-last reported),
\* rev_ann_est_cur = growth(first estimate, last reported),
\* rev_ann_est_fut = growth(second estimate, first estimate),
\* eps_yy_ttm = growth(last reported EPS, second-to-last reported EPS).
C9_AnnualGrowthFields ==
  (IsParseAnnualIncome /\ args[1] /= PyNone) =>
    LET data == args[1]
        rev == find_row(ajax_row_map(data), REVENUE_CANDIDATES)
        eps == find_row(ajax_row_map(data), EPS_CANDIDATES)
        revRep == C9_Reported(data, rev)
        revEst == C9_Estimates(data, rev)
        epsRep == C9_Reported(data, eps)
    IN /\ ret.rev_ann_rep = C9_Growth(rev, revRep, -1, revRep, -2)
       /\ ret.rev_ann_est_cur = C9_Growth(rev, revEst, 1, revRep, -1)
       /\ ret.rev_ann_est_fut = C9_Growth(rev, revEst, 2, revEst, 1)
       /\ ret.eps_yy_ttm = C9_Growth(eps, epsRep, -1, epsRep, -2)

\* A table with headers 22, 23, 24E, 25E whose first row is Total Revenue
\* 100, 110, 121, 133.1, 150 (one value beyond the headers) and which has
\* the EPS row 1.0, 1.5, N/A, 2: all four fields are growths.
C9_Witness ==
  /\ IsParseAnnualIncome
  /\ args[1] /= PyNone
  /\ Len(DataHeaders(args[1])) = 5
  /\ Len(DataRows(args[1])) >= 2
  /\ Len(DataRows(args[1])[1]) = 6
  /\ ret.rev_ann_rep = PyStr(<<"+","1","0",".","0","%">>)
  /\ ret.rev_ann_est_cur = PyStr(<<"+","1","0",".","0","%">>)
  /\ ret.rev_ann_est_fut = PyStr(<<"+","1","0",".","0","%">>)
  /\ ret.eps_yy_ttm = PyStr(<<"+","5","0",".","0","%">>)

C10_Like(label, candidates) ==
  \E j \in 1..Len(candidates) : Contains(Lower(label), Lower(candidates[j]))

\* The label ajax_row_map files the row under.
C10_Label(row) ==
  Strip(StrOf(row[1]))

\* A row that can resolve as the EPS row and not as the revenue row.
C10_EpsRow(row) ==
  /\ Len(row) >= 2
  /\ C10_Like(C10_Label(row), EPS_CANDIDATES)
  /\ ~C10_Like(C10_Label(row), REVENUE_CANDIDATES)

\* A row that can resolve as the revenue row and not as the EPS row.
C10_RevenueRow(row) ==
  /\ Len(row) >= 2
  /\ C10_Like(C10_Label(row), REVENUE_CANDIDATES)
  /\ ~C10_Like(C10_Label(row), EPS_CANDIDATES)

RECURSIVE C10_Keep(_, _, _)
C10_Keep(rows, dropEps, i) ==
  IF i > Len(rows) THEN <<>>
  ELSE IF (dropEps /\ C10_EpsRow(rows[i])) \/ (~dropEps /\ C10_RevenueRow(rows[i]))
    THEN C10_Keep(rows, dropEps, i + 1)
  ELSE <<rows[i]>> \o C10_Keep(rows, dropEps, i + 1)

\* The table without its EPS rows (dropEps) or without its revenue rows.
C10_Without(data, dropEps) ==
  [data EXCEPT !.data = C10_Keep(data.data, dropEps, 1)]

\* C10: parse_annual_income answers its four fields one by one and always
\* answers: the three revenue fields are what they are for the table
\* without its EPS rows, eps_yy_ttm is what it is for the table without
\* its revenue rows, a field whose row does not resolve is "-" while the
\* others stand, and an absent table or a table without headers gives "-"
\* for all four fields.
C10_FieldsIndependent ==
  IsParseAnnualIncome =>
    /\ DOMAIN ret = {"eps_yy_ttm", "rev_ann_rep", "rev_ann_est_cur",
                     "rev_ann_est_fut"}
    /\ \A f \in DOMAIN ret : ret[f].k = "str"
    /\ (IsFalsy(args[1]) \/ Len(DataHeaders(args[1])) <= 1)
         => ret = AnnualPlaceholders
    /\ ~IsFalsy(args[1]) =>
         \A noEps \in {parse_annual_income(C10_Without(args[1], TRUE))},
            noRev \in {parse_annual_income(C10_Without(args[1], FALSE))} :
            /\ ret.rev_ann_rep = noEps.rev_ann_rep
            /\ ret.rev_ann_est_cur = noEps.rev_ann_est_cur
            /\ ret.rev_ann_est_fut = noEps.rev_ann_est_fut
            /\ ret.eps_yy_ttm = noRev.eps_yy_ttm
            /\ noEps.eps_yy_ttm = PyStr(PLACEHOLDER)
            /\ noRev.rev_ann_rep = PyStr(PLACEHOLDER)
            /\ noRev.rev_ann_est_cur = PyStr(PLACEHOLDER)
            /\ noRev.rev_ann_est_fut = PyStr(PLACEHOLDER)

\* A table with an EPS row and no revenue row: eps_yy_ttm is a growth and
\* the three revenue fields are "-".
C10_Witness ==
  /\ IsParseAnnualIncome
  /\ ~IsFalsy(args[1])
  /\ \E i \in 1..Len(DataRows(args[1])) : C10_EpsRow(DataRows(args[1])[i])
  /\ \A i \in 1..Len(DataRows(args[1])) : ~C10_RevenueRow(DataRows(args[1])[i])
  /\ ret.eps_yy_ttm = PyStr(<<"+","5","0",".","0","%">>)
  /\ ret.rev_ann_rep = PyStr(PLACEHOLDER)
  /\ ret.rev_ann_est_cur = PyStr(PLACEHOLDER)
  /\ ret.rev_ann_est_fut = PyStr(PLACEHOLDER)

\* ----------------------------------------------- claims on the numeric scans
IsNumericScan ==
  pc = "returned" /\ op \in {"first_numeric", "last_numeric"} /\ Len(args) = 1

\* The positions of a list whose value float() accepts.
C13_Parsing(v) ==
  {i \in 1..Len(v) : ParseFloat(v[i]) /= PyNone}

\* The absent-class tokens: empty, "-", "N/A", "None", whitespace-only.
C13_AbsentClass(token) ==
  Lower(Strip(token)) \in {<<>>, <<"-">>, <<"n","/","a">>, <<"n","o","n","e">>}

\* C13: first_numeric returns the leftmost and last_numeric the rightmost
\* value of the list that parses as a number, passing over placeholders and
\* other entries that do not parse; both return absent, and never raise,
\* for an absent or empty list and for a list of absent-class and
\* unparsable tokens only.
C13_NumericScans ==
  IsNumericScan =>
    /\ ret.k /= "raise"
    /\ args[1] = PyNone => ret = PyNone
    /\ args[1] /= PyNone =>
         LET v == args[1].v
             hits == C13_Parsing(v)
         IN /\ hits = {} => ret = PyNone
            /\ (\A i \in 1..Len(v) : C13_AbsentClass(v[i])) => ret = PyNone
            /\ (hits /= {} /\ op = "first_numeric")
                 => ret = ParseFloat(v[MinOf(hits)])
            /\ (hits /= {} /\ op = "last_numeric")
                 => ret = ParseFloat(v[C9_Max(hits)])

\* last_numeric on ["1.5", " 2 ", "-"] passes over the trailing placeholder
\* and returns 2.
C13_Witness ==
  /\ IsNumericScan
  /\ op = "last_numeric"
  /\ args[1] = PyList(<< <<"1",".","5">>, <<" ","2"," ">>, <<"-">> >>)
  /\ ret = ParseFloat(<<"2">>)
  /\ ret /= PyNone

\* ---------------------------------- claims on the earnings/estimates parser
IsParseEarningsEstimates ==
  pc = "returned" /\ op = "parse_earnings_estimates"

\* parse_earnings_estimates returned its dict (no revision count raised).
EarningsReturned ==
  IsParseEarningsEstimates /\ "eps_q_est" \in DOMAIN ret

\* The row the candidates resolve to in the table, None when none does.
C11_Row(data, candidates) ==
  find_row(ajax_row_map(data), candidates)

\* The first (fromLeft) or last value of the row that parses as a number,
\* absent when none does.
C11_Numeric(row, fromLeft) ==
  LET hits == C13_Parsing(row.v)
  IN IF hits = {} THEN PyNone
     ELSE IF fromLeft THEN ParseFloat(row.v[MinOf(hits)])
     ELSE ParseFloat(row.v[C9_Max(hits)])

C11_Growth(est, act) ==
  IF est = PyNone \/ act = PyNone THEN PyStr(PLACEHOLDER)
  ELSE calc_yoy(C11_Numeric(est, TRUE), C11_Numeric(act, FALSE))

\* C11: eps_q_est and rev_q_est are the growth from the last numeric value
\* of the resolved actual row (scanning right to left) to the first numeric
\* value of the resolved estimate row (scanning left to right), placeholder
\* and non-numeric entries passed over in both rows, and "-" when either
\* row does not resolve or has no numeric value.
C11_EstimateGrowth ==
  EarningsReturned =>
    /\ ret.eps_q_est = C11_Growth(C11_Row(args[1], EPS_EST_CANDIDATES),
                                  C11_Row(args[1], EPS_ACT_CANDIDATES))
    /\ ret.rev_q_est = C11_Growth(C11_Row(args[1], REV_EST_CANDIDATES),
                                  C11_Row(args[1], REV_ACT_CANDIDATES))

\* EPS Estimate -, 1.2, 1.3 against EPS Actual 1.0, -, 1.5, N/A: the
\* estimate 1.2 over the actual 1.5 is -20.0%.
C11_Witness ==
  /\ EarningsReturned
  /\ C11_Row(args[1], EPS_EST_CANDIDATES) =
       PyList(<< <<"-">>, <<"1",".","2">>, <<"1",".","3">> >>)
  /\ C11_Row(args[1], EPS_ACT_CANDIDATES) =
       PyList(<< <<"1",".","0">>, <<"-">>, <<"1",".","5">>, <<"N","/","A">> >>)
  /\ ret.eps_q_est = PyStr(<<"-","2","0",".","0","%">>)

\* A placeholder value: empty, "-", "N/A" or "None" in either case, blanks
\* around it disregarded.
C12_Placeholder(v) ==
  Lower(Strip(v)) \in {<<>>, <<"-">>, <<"n","/","a">>, <<"n","o","n","e">>}

\* The growth of the last over the second-to-last value of the row that is
\* no placeholder, "-" when the row does not resolve or has fewer than two.
C12_Growth(act) ==
  IF act = PyNone THEN PyStr(PLACEHOLDER)
  ELSE LET kept == {i \in 1..Len(act.v) : ~C12_Placeholder(act.v[i])}
       IN IF Cardinality(kept) < 2 THEN PyStr(PLACEHOLDER)
          ELSE calc_yoy(
                 first_numeric(PyList(<<act.v[C9_Max(kept)]>>)),
                 first_numeric(PyList(<<act.v[C9_Max(kept \ {C9_Max(kept)})]>>)))

\* C12: eps_q_rep and rev_q_rep are the growth of the most recent over the
\* second most recent non-placeholder value of the resolved actual row in
\* sequence order, placeholders between or after the values being passed
\* over, and "-" when fewer than two non-placeholder values exist.
C12_ReportedGrowth ==
  EarningsReturned =>
    /\ ret.eps_q_rep = C12_Growth(C11_Row(args[1], EPS_ACT_CANDIDATES))
    /\ ret.rev_q_rep = C12_Growth(C11_Row(args[1], REV_ACT_CANDIDATES))

\* The same growth when only the values "", "-" and "N/A", spelt so, count
\* as placeholders: what the actuals comprehension of the parser keeps.
C12_GrowthOfKept(act) ==
  IF act = PyNone THEN PyStr(PLACEHOLDER)
  ELSE LET kept == {i \in 1..Len(act.v) : act.v[i] \notin ACTUALS_SKIP}
       IN IF Cardinality(kept) < 2 THEN PyStr(PLACEHOLDER)
          ELSE calc_yoy(
                 first_numeric(PyList(<<act.v[C9_Max(kept)]>>)),
                 first_numeric(PyList(<<act.v[C9_Max(kept \ {C9_Max(kept)})]>>)))

\* What the parser does compute for the reported growth: a stringified null
\* ("None") is kept as a value, and then yields "-".
C12_ReportedGrowthOfKept ==
  EarningsReturned =>
    /\ ret.eps_q_rep = C12_GrowthOfKept(C11_Row(args[1], EPS_ACT_CANDIDATES))
    /\ ret.rev_q_rep = C12_GrowthOfKept(C11_Row(args[1], REV_ACT_CANDIDATES))

\* EPS Actual 1.0, 1.5, null: the reported growth is "-", not +50.0%.
C12_NullAfterActuals ==
  /\ EarningsReturned
  /\ C11_Row(args[1], EPS_ACT_CANDIDATES) =
       PyList(<< <<"1",".","0">>, <<"1",".","5">>, <<"N","o","n","e">> >>)
  /\ ret.eps_q_rep = PyStr(PLACEHOLDER)

\* ------------------------------------ claims on the percentage-growth fields
C14_GrowthFields ==
  {"eps_yy_ttm", "sales_yy_ttm", "eps_q_rep", "sales_q_rep"}

\* C14: every percentage-growth field of the record of build_stock_record
\* (eps_yy_ttm, sales_yy_ttm, eps_q_rep, sales_q_rep) is the placeholder "-"
\* or a string with an explicit leading sign, "+" or "-", for every
\* snapshot.
C14_ExplicitSign ==
  IsBuildStockRecord =>
    \A f \in C14_GrowthFields :
      ret[f] = <<"-">> \/ (Len(ret[f]) >= 1 /\ ret[f][1] \in {"+", "-"})

\* C14 amended: every percentage-growth field is the placeholder "-" when
\* its snapshot field is absent, and otherwise the text of the snapshot
\* field with the blanks around it trimmed and nothing else changed: no
\* sign is added.
C14_SnapshotTextPassedThrough ==
  IsBuildStockRecord =>
    LET fund == args[1].fundament
    IN \A f \in C14_GrowthFields :
         ret[f] = IF C1_SourceAbsent(fund, C1_SourceOf[f]) THEN <<"-">>
                  ELSE Strip(fund[C1_SourceOf[f]].s)

\* The snapshot field 'EPS Y/Y TTM' is '25.58%' and so is eps_yy_ttm.
C14_Witness ==
  /\ IsBuildStockRecord
  /\ "EPS Y/Y TTM" \in DOMAIN args[1].fundament
  /\ args[1].fundament["EPS Y/Y TTM"] = PyStr(<<"2","5",".","5","8","%">>)
  /\ ret.eps_yy_ttm = <<"2","5",".","5","8","%">>

\* -------------------------------------------------- claims on the fetchers
IsFetch ==
  op \in {"fetch_fundament", "fetch_ajax"}

\* The trace of a fetcher: attempts 1, 2, ... in order, at most MAX_RETRIES
\* of them; between two attempts one sleep of twice the number of the
\* failed attempt before it; nothing after a successful attempt and no
\* sleep after the last attempt.
C15_Trace ==
  /\ Len(log) <= 2 * MAX_RETRIES - 1
  /\ \A i \in 1..Len(log) :
       IF i % 2 = 1
       THEN /\ log[i].e = "attempt"
            /\ log[i].n = (i + 1) \div 2
            /\ log[i].ok => i = Len(log)
       ELSE /\ log[i].e = "sleep"
            /\ log[i].n = 2 * log[i - 1].n
            /\ log[i - 1].n < MAX_RETRIES

\* The value a fetcher returns: that of its successful attempt ({} in place
\* of an empty answer of ticker_fundament), or, after MAX_RETRIES failed
\* attempts, {} for fetch_fundament and None for fetch_ajax; no exception.
C15_Result ==
  pc = "returned" =>
    /\ Len(log) >= 1
    /\ log[Len(log)].e = "attempt"
    /\ ret.k /= "raise"
    /\ IF log[Len(log)].ok
       THEN ret = (IF op = "fetch_fundament" /\ log[Len(log)].val = PyNone
                   THEN Fundament(EmptySnapshot) ELSE log[Len(log)].val)
       ELSE /\ log[Len(log)].n = MAX_RETRIES
            /\ ret = (IF op = "fetch_fundament"
                      THEN Fundament(EmptySnapshot) ELSE PyNone)

\* C15: fetch_fundament and fetch_ajax end after at most MAX_RETRIES (3)
\* attempts made in the order 1..3: the first successful attempt's result
\* is returned with no further attempt, a sleep of 2 * attempt seconds
\* happens only after a failed attempt that is not the last, and after
\* MAX_RETRIES failures the failure value is returned without raising;
\* every call returns.
C15_BoundedRetries ==
  /\ [](IsFetch => (attempt \in 1..MAX_RETRIES /\ C15_Trace /\ C15_Result))
  /\ (IsFetch /\ pc = "try") ~> (IsFetch /\ pc = "returned")

\* fetch_ajax returns the table of its third attempt, after sleeps of 2 and
\* 4 seconds.
C15_Witness ==
  /\ op = "fetch_ajax"
  /\ pc = "returned"
  /\ Len(log) = 5
  /\ log[2].n = 2
  /\ log[4].n = 4
  /\ log[5].ok
  /\ ret = Table(TRUE, <<PyStr(<<>>)>>, TRUE, <<>>)

\* fetch_fundament returns {} after three failed attempts.
C15_WitnessGiveUp ==
  /\ op = "fetch_fundament"
  /\ pc = "returned"
  /\ Len(log) = 5
  /\ ~log[5].ok
  /\ ret = Fundament(EmptySnapshot)

\* ----------------------------------------------- claims on the main pipeline
IsMain ==
  op = "main"

\* The fetches made so far are those of the first tickers of the screener's
\* list, one per ticker and in its order, each with its one raw record.
C16_OneFetchEach ==
  /\ Len(log) = Len(stocks_raw)
  /\ Len(log) <= Len(screened)
  /\ \A i \in 1..Len(log) :
       /\ log[i].ticker = screened[i]
       /\ stocks_raw[i].ticker = screened[i]
  /\ \A i \in 1..Len(screened) :
       Cardinality({j \in 1..Len(log) : log[j].ticker = screened[i]})
         = (IF pc = "returned" \/ i <= Len(log) THEN 1 ELSE 0)

C16_Placeholder ==
  <<"-">>

\* The written list is PyList(p): the records of the raw records whose
\* category is not "Under $2B", each once, in ascending order of ticker.
C16_Written(p) ==
  LET kept == {i \in 1..Len(stocks_raw) :
                 build_stock_record(stocks_raw[i]).cap_category /= "Under $2B"}
  IN /\ Len(p) = Cardinality(kept)
     /\ \A i \in kept : \E j \in 1..Len(p) : p[j] = build_stock_record(stocks_raw[i])
     /\ \A j \in 1..Len(p) : p[j].cap_category /= "Under $2B"
     /\ \A i, j \in 1..Len(p) : i < j => StrLess(p[i].ticker, p[j].ticker)

\* A ticker whose fetch gave the empty snapshot is in the list p, of unknown
\* size and with every derived field the placeholder.
C16_FailedKept(p) ==
  \A i \in 1..Len(stocks_raw) :
    stocks_raw[i].fundament = EmptySnapshot =>
      \E j \in 1..Len(p) :
        /\ p[j].ticker = screened[i]
        /\ p[j].cap_category = "Unknown"
        /\ \A f \in {p[j].market_cap, p[j].next_earnings, p[j].eps_yy_ttm,
                     p[j].sales_yy_ttm, p[j].eps_q_rep, p[j].sales_q_rep,
                     p[j].eps_surpr, p[j].sales_surpr, p[j].avg_target_price} :
             f = C16_Placeholder

====
